---------------------------- MODULE Spec2Model ----------------------------
(***************************************************************************)
(* A model of WikidataTextifier: the two normalizers (JSONNormalizer,      *)
(* TTLNormalizer), the value model with its truthiness rules, the lazy     *)
(* label factory, the three renderers and the request handler.             *)
(*                                                                         *)
(* Python values are represented as follows.  None is the string "None"    *)
(* where a tag is expected (ranks) and the record NoneValue where a value  *)
(* object is expected.  A dict is a function whose DOMAIN is its key set.  *)
(***************************************************************************)
EXTENDS Integers, Sequences, FiniteSets, TLC

VARIABLES
    \* ---- language fallback (WikidataLabel.get_lang_val) ----
    lv_labels,        \* the subject's "labels" map: language -> {"value": ...}
    lv_descriptions,  \* the subject's "descriptions" map
    lv_lang,          \* self.lang
    lv_fallback,      \* self.fallback_lang ("" when falsy)
    lv_label,         \* result of the label lookup ("?" before the call)
    lv_description,   \* result of the description lookup ("?" before the call)
    \* ---- lazy label factory (LazyLabelFactory, LazyLabel) ----
    label_factory,    \* [pending_ids, resolved_labels] of the factory in use
    bulk_calls,       \* id -> number of times it was passed to get_bulk_labels
    handles,          \* ids for which create() has returned a LazyLabel
    last_str,         \* what the last str(LazyLabel) returned, or NoStr
    ops,              \* number of factory operations performed so far
    \* ---- two builds running concurrently ----
    shared,           \* TRUE when both builds use one resolver instance
    fac,              \* resolver instance -> [pending_ids, resolved_labels]
    bpc,              \* build -> its position
    blocal,           \* build -> locals of its resolve_all / __str__ call
    bops,             \* build -> number of create / str calls started
    bgot,             \* build -> what its last str(LazyLabel) returned
    registered,       \* resolver instance -> ids passed to create()
    passed,           \* resolver instance -> ids passed to get_bulk_labels
    in_window,        \* resolver instance -> ids created by one build while
                      \* another was between its bulk lookup and its clear()
    \* ---- one entity through both normalizers and the renderers ----
    all_ranks,        \* the all_ranks option of normalize
    filter_pids,      \* the filter_pids option of normalize
    facts,            \* the entity's statements, in document order
    json_out,         \* outcome of JSONNormalizer.normalize on the JSON encoding
    ttl_out,          \* outcome of TTLNormalizer.normalize on the TTL encoding
    json_shown,       \* last rendering of the JSONNormalizer entity
    ttl_shown,        \* last rendering of the TTLNormalizer entity
    \* ---- the request handler on several ids (main.get_textified_wd) ----
    rq_payload,       \* what get_wikidata_json_by_ids returned: id -> entity JSON
    rq_lang,          \* the lang parameter
    rq_fallback,      \* the fallback_lang parameter
    rq_response,      \* the handler's outcome, or NoResponse before the call
    rq_ids,           \* the ids of the id parameter
    rq_format,        \* the format parameter
    \* ---- one statement through both value builders ----
    vo_fact,          \* the statement, as the facts give it
    vo_json,          \* outcome of JSONNormalizer._build_claim on its JSON encoding
    vo_ttl,           \* outcome of TTLNormalizer._build_claim_object on its TTL encoding
    vo_shown,         \* the prose and structured rendering of both built values
    \* ---- the temporal formatter (utils.wikidata_time_to_text) ----
    tm_value,         \* the time value passed to the formatter
    tm_store,         \* the temporal labels the label store can supply
    tm_label,         \* what the formatter returned or raised, NoLabel before the call
    \* ---- the spatial formatter (utils.wikidata_geolocation_to_text) ----
    geo_latitude,     \* the latitude argument, in units of 1/10000 degree
    geo_longitude,    \* the longitude argument
    geo_text,         \* what the formatter returned, NoGeo before the call
    \* ---- the renderings of one entity (Textifier.WikidataTextifier) ----
    rn_entity,        \* the entity with its claims
    rn_json,          \* entity.to_json(), NoRendering before the call
    rn_triplet        \* entity.to_triplet(), NoRendering before the call

langVars == <<lv_labels, lv_descriptions, lv_lang, lv_fallback, lv_label, lv_description>>

factoryVars == <<label_factory, bulk_calls, handles, last_str, ops>>

concVars == <<shared, fac, bpc, blocal, bops, bgot, registered, passed, in_window>>

normVars == <<all_ranks, filter_pids, facts, json_out, ttl_out, json_shown, ttl_shown>>

requestVars == <<rq_payload, rq_lang, rq_fallback, rq_response, rq_ids, rq_format>>

valueVars == <<vo_fact, vo_json, vo_ttl, vo_shown>>

timeVars == <<tm_value, tm_store, tm_label>>

geoVars == <<geo_latitude, geo_longitude, geo_text>>

renderVars == <<rn_entity, rn_json, rn_triplet>>

vars == <<langVars, factoryVars, concVars, normVars, requestVars, valueVars, timeVars, geoVars, renderVars>>

\* Everything but one group: what the actions of that group leave alone.
notLang == <<factoryVars, concVars, normVars, requestVars, valueVars, timeVars, geoVars, renderVars>>

notFactory == <<langVars, concVars, normVars, requestVars, valueVars, timeVars, geoVars, renderVars>>

notConc == <<langVars, factoryVars, normVars, requestVars, valueVars, timeVars, geoVars, renderVars>>

notNorm == <<langVars, factoryVars, concVars, requestVars, valueVars, timeVars, geoVars, renderVars>>

notRequest == <<langVars, factoryVars, concVars, normVars, valueVars, timeVars, geoVars, renderVars>>

notValue == <<langVars, factoryVars, concVars, normVars, requestVars, timeVars, geoVars, renderVars>>

notTime == <<langVars, factoryVars, concVars, normVars, requestVars, valueVars, geoVars, renderVars>>

notGeo == <<langVars, factoryVars, concVars, normVars, requestVars, valueVars, timeVars, renderVars>>

notRender == <<langVars, factoryVars, concVars, normVars, requestVars, valueVars, timeVars, geoVars>>

(***************************************************************************)
(* Language fallback                                                       *)
(***************************************************************************)

\* The language keys of a label map that the model distinguishes.
Langs == {"de", "en", "mul"}

\* The text stored under a language key: it names its key, so that the
\* result of a lookup tells which bucket it came from.
TextOf(l) == IF l = "de" THEN "text-de" ELSE IF l = "en" THEN "text-en" ELSE "text-mul"

\* An entry of a label map.  The normalizers pass maps whose entries are
\* dicts {"language": l, "value": v} (kind "dict", truthy whatever v is);
\* the label factory passes compressed maps whose entries are the strings
\* themselves (kind "str", falsy when empty).
DictEntry(v) == [kind |-> "dict", value |-> v]

StrEntry(v) == [kind |-> "str", value |-> v]

\* The default {} of data.get(key, {}).
EmptyDict == [kind |-> "empty", value |-> ""]

\* The subject label maps of the model: any subset of the language keys.
LabelMaps == {[l \in S |-> DictEntry(TextOf(l))] : S \in SUBSET Langs}

\* data.get(key, {})
DictGet(data, key) == IF key \in DOMAIN data THEN data[key] ELSE EmptyDict

\* Python truthiness of what data.get returns.
Falsy(label) == label.kind = "empty" \/ (label.kind = "str" /\ label.value = "")

\* get_lang_val with the 'mul' bucket skipped.
get_lang_val_no_mul(data, lang, fallback_lang) ==
    LET label == DictGet(data, lang)
        final == IF fallback_lang # "" /\ Falsy(label)
                 THEN DictGet(data, fallback_lang) ELSE label
    IN  final.value

\* WikidataLabel.get_lang_val:
\*   label = data.get(lang, data.get('mul', {}))
\*   if fallback_lang and not label: label = data.get(fallback_lang, {})
\*   return label.get('value', '')
get_lang_val(data, lang, fallback_lang) ==
    LET label == IF lang \in DOMAIN data THEN data[lang] ELSE DictGet(data, "mul")
        final == IF fallback_lang # "" /\ Falsy(label)
                 THEN DictGet(data, fallback_lang) ELSE label
    IN  final.value

LangStart ==
    /\ lv_labels \in LabelMaps
    /\ lv_descriptions \in LabelMaps
    /\ lv_lang \in {"de", "en"}
    /\ lv_fallback \in {"", "de", "en"}
    /\ lv_label = "?"
    /\ lv_description = "?"

\* normalize(): label = WikidataLabel.get_lang_val(labels, lang, fallback_lang)
ResolveLabel ==
    /\ lv_label = "?"
    /\ lv_label' = get_lang_val(lv_labels, lv_lang, lv_fallback)
    /\ UNCHANGED <<lv_labels, lv_descriptions, lv_lang, lv_fallback, lv_description>>
    /\ UNCHANGED notLang

\* normalize(): description = WikidataLabel.get_lang_val(descriptions, ...)
ResolveDescription ==
    /\ lv_label # "?"
    /\ lv_description = "?"
    /\ lv_description' = get_lang_val(lv_descriptions, lv_lang, lv_fallback)
    /\ UNCHANGED <<lv_labels, lv_descriptions, lv_lang, lv_fallback, lv_label>>
    /\ UNCHANGED notLang

LangNext == ResolveLabel \/ ResolveDescription

\* The language variables when the behaviour is not about them.
LangIdle ==
    /\ lv_labels = << >>
    /\ lv_descriptions = << >>
    /\ lv_lang = "en"
    /\ lv_fallback = "en"
    /\ lv_label = "?"
    /\ lv_description = "?"

\* The order the claim states: target, then fallback, then 'mul', else "".
ClaimedLangVal(data, lang, fallback_lang) ==
    IF lang \in DOMAIN data THEN TextOf(lang)
    ELSE IF fallback_lang \in DOMAIN data THEN TextOf(fallback_lang)
    ELSE IF "mul" \in DOMAIN data THEN TextOf("mul")
    ELSE ""

\* The order the code follows: target, then 'mul', then fallback, else "".
CodeLangVal(data, lang, fallback_lang) ==
    IF lang \in DOMAIN data THEN TextOf(lang)
    ELSE IF "mul" \in DOMAIN data THEN TextOf("mul")
    ELSE IF fallback_lang \in DOMAIN data THEN TextOf(fallback_lang)
    ELSE ""

\* C3 (as stated): label and description are resolved target_lang, then
\* fallback_lang, then the 'mul' bucket, then the empty string.
C3_ClaimedOrder ==
    /\ lv_label # "?" => lv_label = ClaimedLangVal(lv_labels, lv_lang, lv_fallback)
    /\ lv_description # "?" =>
          lv_description = ClaimedLangVal(lv_descriptions, lv_lang, lv_fallback)

\* C3 (amended): label and description are resolved target_lang, then the
\* 'mul' bucket, then fallback_lang, then the empty string.
C3_MulBeforeFallback ==
    /\ lv_label # "?" => lv_label = CodeLangVal(lv_labels, lv_lang, lv_fallback)
    /\ lv_description # "?" =>
          lv_description = CodeLangVal(lv_descriptions, lv_lang, lv_fallback)

\* C3 witness: the target language is absent, fallback and 'mul' are both
\* present and differ from each other, and the label has been resolved.
C3_Witness ==
    /\ lv_label # "?"
    /\ lv_lang \notin DOMAIN lv_labels
    /\ lv_fallback \in DOMAIN lv_labels
    /\ "mul" \in DOMAIN lv_labels
    /\ lv_label = "text-mul"

(***************************************************************************)
(* Lazy label factory                                                      *)
(***************************************************************************)

\* Bound: the number of factory operations in one behaviour.
MaxOps == 5

\* What the external label store (database, then Wikidata API) holds, as
\* compressed label maps.  Q9 exists without any label; an identifier that
\* is not listed (Q404) is absent from every result map.  The label of Q7
\* in the store differs from the one Turtle documents state for it.
LabelStore ==
    [id \in {"P31", "P279", "P569", "P2048", "Q5", "Q7", "Q9", "Q11573", "Q199"} |->
        IF id = "Q9" THEN << >>
        ELSE [l \in {"en"} |-> StrEntry(
                CASE id = "P31" -> "instance of"
                  [] id = "P279" -> "subclass of"
                  [] id = "P569" -> "date of birth"
                  [] id = "P2048" -> "height"
                  [] id = "Q11573" -> "metre"
                  [] id = "Q199" -> "1"
                  [] id = "Q7" -> "label in the store"
                  [] OTHER -> "human")]]

\* The identifiers the factory behaviours register.
FactoryIds == {"Q5", "Q9", "Q404"}

\* WikidataLabel.get_bulk_labels(ids): the stored maps of the requested
\* identifiers; identifiers the store does not know are absent.
get_bulk_labels(ids) == [id \in ids \cap DOMAIN LabelStore |-> LabelStore[id]]

\* An update that replaces the dict by the new entries.
DictUpdate_replace(m, d) == d

\* dict.update
DictUpdate(m, d) ==
    [k \in DOMAIN m \cup DOMAIN d |-> IF k \in DOMAIN d THEN d[k] ELSE m[k]]

\* LazyLabelFactory.__init__
NewFactory == [pending_ids |-> {}, resolved_labels |-> << >>]

\* LazyLabelFactory.create: self._pending_ids.add(qid)
create(f, qid) == [f EXCEPT !.pending_ids = @ \cup {qid}]

\* The identifiers resolve_all passes to get_bulk_labels: none when it
\* returns early, otherwise the pending ones that are not resolved yet.
\* (get_bulk_labels returns at once on an empty list.)
LookupIds(f) ==
    IF f.pending_ids = {} THEN {} ELSE f.pending_ids \ DOMAIN f.resolved_labels

\* resolve_all that looks up every pending identifier, resolved or not.
resolve_all_no_subtract(f) ==
    IF f.pending_ids = {} THEN f
    ELSE [pending_ids |-> {},
          resolved_labels |-> DictUpdate(f.resolved_labels, get_bulk_labels(f.pending_ids))]

\* LazyLabelFactory.resolve_all
resolve_all(f) ==
    IF f.pending_ids = {} THEN f
    ELSE [pending_ids |-> {},
          resolved_labels |-> DictUpdate(f.resolved_labels, get_bulk_labels(LookupIds(f)))]

\* LazyLabelFactory.get_label with lang = fallback_lang = "en"
get_label(f, qid) ==
    get_lang_val(IF qid \in DOMAIN f.resolved_labels THEN f.resolved_labels[qid] ELSE << >>,
                 "en", "en")

\* The external call count after resolve_all on f.
CountCalls(calls, f) ==
    [id \in DOMAIN calls |-> IF id \in LookupIds(f) THEN calls[id] + 1 ELSE calls[id]]

NoStr == [qid |-> "None", text |-> ""]

FactoryStart ==
    /\ label_factory = NewFactory
    /\ bulk_calls = [id \in FactoryIds |-> 0]
    /\ handles = {}
    /\ last_str = NoStr
    /\ ops = 0

\* The factory variables when the behaviour is not about them.
FactoryIdle ==
    /\ label_factory = NewFactory
    /\ bulk_calls = << >>
    /\ handles = {}
    /\ last_str = NoStr
    /\ ops = 0

\* label_factory.create(qid)
FCreate ==
    \E qid \in FactoryIds :
        /\ ops < MaxOps
        /\ label_factory' = create(label_factory, qid)
        /\ handles' = handles \cup {qid}
        /\ ops' = ops + 1
        /\ UNCHANGED <<bulk_calls, last_str>>
        /\ UNCHANGED notFactory

\* str(lazy_label): LazyLabel.__str__ = resolve_all, then get_label
FStr ==
    \E qid \in handles :
        /\ ops < MaxOps
        /\ bulk_calls' = CountCalls(bulk_calls, label_factory)
        /\ label_factory' = resolve_all(label_factory)
        /\ last_str' = [qid |-> qid, text |-> get_label(resolve_all(label_factory), qid)]
        /\ ops' = ops + 1
        /\ UNCHANGED handles
        /\ UNCHANGED notFactory

\* label_factory.resolve_all() called by the caller
FResolveAll ==
    /\ ops < MaxOps
    /\ bulk_calls' = CountCalls(bulk_calls, label_factory)
    /\ label_factory' = resolve_all(label_factory)
    /\ ops' = ops + 1
    /\ UNCHANGED <<handles, last_str>>
    /\ UNCHANGED notFactory

FactoryNext == FCreate \/ FStr \/ FResolveAll

\* C6: on one resolver instance every identifier is passed to the external
\* bulk lookup at most once, whatever the sequence of create and str calls.
C6_LookedUpAtMostOnce == \A id \in DOMAIN bulk_calls : bulk_calls[id] <= 1

\* Every entry of the resolved map m is an entry of n.
KeepsEntries(m, n) == \A k \in DOMAIN m : k \in DOMAIN n /\ n[k] = m[k]

\* What a step of the factory leaves behind when it returns a string.
StrStepOutcome ==
    /\ FStr =>
          /\ label_factory'.pending_ids = {}
          /\ \A id \in handles' :
                id \in DOMAIN label_factory'.resolved_labels \/ bulk_calls'[id] > 0
    /\ FactoryNext =>
          KeepsEntries(label_factory.resolved_labels, label_factory'.resolved_labels)

\* C26: whenever str(label) returns, the pending set is empty and every
\* identifier registered so far is a key of the resolved map or has been
\* passed to the external bulk lookup; no step of the factory removes an
\* entry from the resolved map.
C26_StrLeavesNothingPending == [][StrStepOutcome]_vars

\* C26 witness: a label string was returned while one registered
\* identifier is a key of the resolved map and another one was looked up
\* without becoming a key; nothing is pending.
C26_Witness ==
    /\ last_str # NoStr
    /\ label_factory.pending_ids = {}
    /\ \E id \in handles : id \in DOMAIN label_factory.resolved_labels
    /\ \E id \in handles :
          id \notin DOMAIN label_factory.resolved_labels /\ bulk_calls[id] > 0

(***************************************************************************)
(* Two concurrent builds                                                   *)
(*                                                                         *)
(* Each build registers identifiers with create() and stringifies lazy     *)
(* labels.  resolve_all is not atomic: its statements are separate steps,  *)
(* and the statement that rebinds _pending_ids reads and writes in two     *)
(* steps.                                                                  *)
(***************************************************************************)

\* Bound: the number of create / str calls one build makes.
MaxBuildOps == 2

Builds == {1, 2}

\* The identifiers a build meets in its entity: a property and its value.
BuildIds(b) == IF b = 1 THEN {"P31", "Q5"} ELSE {"P279", "Q5"}

\* A normalizer that takes a resolver instance shared by all builds.
FactoryOfShared(b) == 1

\* The resolver instance of a build: JSONNormalizer.__init__ and
\* TTLNormalizer.__init__ construct one LazyLabelFactory per normalizer;
\* `shared` is the configuration in which one instance is handed to both.
FactoryOf(b) == IF shared THEN 1 ELSE b

NoLocal == [qid |-> "None", diff |-> {}, label_data |-> << >>]

ConcStart ==
    /\ shared \in BOOLEAN
    /\ fac = [k \in Builds |-> NewFactory]
    /\ bpc = [b \in Builds |-> "idle"]
    /\ blocal = [b \in Builds |-> NoLocal]
    /\ bops = [b \in Builds |-> 0]
    /\ bgot = [b \in Builds |-> NoStr]
    /\ registered = [k \in Builds |-> {}]
    /\ passed = [k \in Builds |-> {}]
    /\ in_window = [k \in Builds |-> {}]

\* The concurrency variables when the behaviour is not about them.
ConcIdle ==
    /\ shared = FALSE
    /\ fac = << >>
    /\ bpc = << >>
    /\ blocal = << >>
    /\ bops = << >>
    /\ bgot = << >>
    /\ registered = << >>
    /\ passed = << >>
    /\ in_window = << >>

\* Another build holds the same resolver between its get_bulk_labels call
\* and its _pending_ids.clear().
InLookupClearWindow(b) ==
    \E o \in Builds \ {b} :
        FactoryOf(o) = FactoryOf(b) /\ bpc[o] \in {"update", "clear"}

\* label_factory.create(qid): self._pending_ids.add(qid)
BCreate(b) ==
    \E qid \in BuildIds(b) :
        /\ bpc[b] = "idle"
        /\ bops[b] < MaxBuildOps
        /\ fac' = [fac EXCEPT ![FactoryOf(b)] = create(@, qid)]
        /\ registered' = [registered EXCEPT ![FactoryOf(b)] = @ \cup {qid}]
        /\ in_window' = IF InLookupClearWindow(b)
                        THEN [in_window EXCEPT ![FactoryOf(b)] = @ \cup {qid}]
                        ELSE in_window
        /\ bops' = [bops EXCEPT ![b] = @ + 1]
        /\ UNCHANGED <<shared, bpc, blocal, bgot, passed>>
        /\ UNCHANGED notConc

\* str(label) begins: LazyLabel.__str__ calls resolve_all, whose first
\* statement returns when nothing is pending.
BStrBegin(b) ==
    \E qid \in BuildIds(b) \cap registered[FactoryOf(b)] :
        /\ bpc[b] = "idle"
        /\ bops[b] < MaxBuildOps
        /\ bops' = [bops EXCEPT ![b] = @ + 1]
        /\ blocal' = [blocal EXCEPT ![b] = [NoLocal EXCEPT !.qid = qid]]
        /\ bpc' = [bpc EXCEPT ![b] =
                     IF fac[FactoryOf(b)].pending_ids = {} THEN "get" ELSE "subtract"]
        /\ UNCHANGED <<shared, fac, bgot, registered, passed, in_window>>
        /\ UNCHANGED notConc

\* self._pending_ids - set(self._resolved_labels.keys()): the new set
BSubtract(b) ==
    /\ bpc[b] = "subtract"
    /\ blocal' = [blocal EXCEPT ![b].diff =
                    fac[FactoryOf(b)].pending_ids \ DOMAIN fac[FactoryOf(b)].resolved_labels]
    /\ bpc' = [bpc EXCEPT ![b] = "rebind"]
    /\ UNCHANGED <<shared, fac, bops, bgot, registered, passed, in_window>>
    /\ UNCHANGED notConc

\* self._pending_ids = <the new set>
BRebind(b) ==
    /\ bpc[b] = "rebind"
    /\ fac' = [fac EXCEPT ![FactoryOf(b)].pending_ids = blocal[b].diff]
    /\ bpc' = [bpc EXCEPT ![b] = "lookup"]
    /\ UNCHANGED <<shared, blocal, bops, bgot, registered, passed, in_window>>
    /\ UNCHANGED notConc

\* label_data = WikidataLabel.get_bulk_labels(list(self._pending_ids))
BLookup(b) ==
    /\ bpc[b] = "lookup"
    /\ blocal' = [blocal EXCEPT ![b].label_data =
                    get_bulk_labels(fac[FactoryOf(b)].pending_ids)]
    /\ passed' = [passed EXCEPT ![FactoryOf(b)] = @ \cup fac[FactoryOf(b)].pending_ids]
    /\ bpc' = [bpc EXCEPT ![b] = "update"]
    /\ UNCHANGED <<shared, fac, bops, bgot, registered, in_window>>
    /\ UNCHANGED notConc

\* self._resolved_labels.update(label_data)
BUpdate(b) ==
    /\ bpc[b] = "update"
    /\ fac' = [fac EXCEPT ![FactoryOf(b)].resolved_labels =
                 DictUpdate(@, blocal[b].label_data)]
    /\ bpc' = [bpc EXCEPT ![b] = "clear"]
    /\ UNCHANGED <<shared, blocal, bops, bgot, registered, passed, in_window>>
    /\ UNCHANGED notConc

\* self._pending_ids.clear()
BClear(b) ==
    /\ bpc[b] = "clear"
    /\ fac' = [fac EXCEPT ![FactoryOf(b)].pending_ids = {}]
    /\ bpc' = [bpc EXCEPT ![b] = "get"]
    /\ UNCHANGED <<shared, blocal, bops, bgot, registered, passed, in_window>>
    /\ UNCHANGED notConc

\* return self.factory.get_label(self.qid)
BGetLabel(b) ==
    /\ bpc[b] = "get"
    /\ bgot' = [bgot EXCEPT ![b] =
                  [qid |-> blocal[b].qid, text |-> get_label(fac[FactoryOf(b)], blocal[b].qid)]]
    /\ blocal' = [blocal EXCEPT ![b] = NoLocal]
    /\ bpc' = [bpc EXCEPT ![b] = "idle"]
    /\ UNCHANGED <<shared, fac, bops, registered, passed, in_window>>
    /\ UNCHANGED notConc

ConcNext ==
    \E b \in Builds :
        \/ BCreate(b)
        \/ BStrBegin(b)
        \/ BSubtract(b)
        \/ BRebind(b)
        \/ BLookup(b)
        \/ BUpdate(b)
        \/ BClear(b)
        \/ BGetLabel(b)

\* An identifier that was registered on resolver k and has left its pending
\* set without ever being passed to the bulk lookup or stored.
Lost(k, id) ==
    /\ id \in registered[k]
    /\ id \notin fac[k].pending_ids
    /\ id \notin DOMAIN fac[k].resolved_labels
    /\ id \notin passed[k]
    /\ \A b \in Builds : FactoryOf(b) = k => id \notin blocal[b].diff

\* The label the store holds for an identifier.
StoreLabel(id) == get_lang_val(LabelStore[id], "en", "en")

\* C7: when each build uses its own resolver instance, no interleaving
\* loses an identifier (removed from the pending set, never looked up, not
\* resolved), and every label a build obtains is the stored one.
C7_OwnResolverSafe ==
    ~shared =>
        /\ \A k \in DOMAIN fac : \A id \in registered[k] : ~Lost(k, id)
        /\ \A b \in DOMAIN bgot :
              bgot[b].qid # "None" => bgot[b].text = StoreLabel(bgot[b].qid)

\* C7 witness: on a shared resolver an identifier created by one build
\* between the other build's bulk lookup and clear() is lost, and its
\* label, which the store holds, has resolved to the empty string.
C7_Witness ==
    /\ shared
    /\ \E b \in DOMAIN bgot :
          /\ bgot[b].qid \in in_window[1]
          /\ Lost(1, bgot[b].qid)
          /\ bgot[b].text = ""
          /\ StoreLabel(bgot[b].qid) # ""

(***************************************************************************)
(* One entity through both normalizers                                     *)
(*                                                                         *)
(* The entity's statements are given once, as facts, and encoded twice:    *)
(* as the "claims" object of a wbgetentities JSON document and as the      *)
(* statement nodes of a Turtle document.  Each normalizer runs on its own  *)
(* encoding.                                                               *)
(***************************************************************************)

\* Bound: the number of statements when their ranks vary.
MaxStatements == 3

\* Rank tags; "None" is a statement that carries no rank.
Ranks == {"preferred", "normal", "deprecated", "None"}

\* A point in time as the facts give it.  sign is "+" or "-"; sign "" is a
\* raw string that lacks the sign.  calendar "None" is a calendar model that
\* is null.  The year is the magnitude written after the sign,
\* year_e5 * 100000 + year, so that years of up to 16 digits fit.
TimeOf(sign, year, month, day, precision, calendar, before, after) ==
    [sign |-> sign, year_e5 |-> 0, year |-> year, month |-> month, day |-> day,
     precision |-> precision, calendar |-> calendar,
     before |-> before, after |-> after]

NoTime == TimeOf("", 0, 0, 0, 0, "", 0, 0)

\* A globe coordinate as the facts give it, in units of 1/10000 degree;
\* has_lat / has_lon FALSE: the number is missing (null).
CoordOf(has_lat, lat, has_lon, lon) ==
    [has_lat |-> has_lat, lat |-> lat, has_lon |-> has_lon, lon |-> lon]

NoCoord == CoordOf(FALSE, 0, FALSE, 0)

\* A quantity as the facts give it: the amount as a decimal string
\* (has_amount FALSE: missing) and the unit: the id of the unit's item,
\* "1" for a quantity without unit, "None" when no unit is stated at all.
QuantityOf(has_amount, amount, unit) ==
    [has_amount |-> has_amount, amount |-> amount, unit |-> unit]

NoQuantity == QuantityOf(FALSE, "", "None")

\* Main values of a statement.  An "item" value refers to another entity
\* (item, property or lexeme) by its id.
ItemValue(id) ==
    [kind |-> "item", id |-> id, time |-> NoTime, coord |-> NoCoord, quantity |-> NoQuantity]

TimeValue(t) ==
    [kind |-> "time", id |-> "", time |-> t, coord |-> NoCoord, quantity |-> NoQuantity]

CoordValue(c) ==
    [kind |-> "coord", id |-> "", time |-> NoTime, coord |-> c, quantity |-> NoQuantity]

QuantityValue(q) ==
    [kind |-> "quantity", id |-> "", time |-> NoTime, coord |-> NoCoord, quantity |-> q]

NoValue ==
    [kind |-> "novalue", id |-> "", time |-> NoTime, coord |-> NoCoord, quantity |-> NoQuantity]

Statement(pid, rank, mv) == [pid |-> pid, rank |-> rank, mv |-> mv]

\* The time values the behaviours draw from: two well-formed dates (CE and
\* BCE), a century and a deep-time value, and one value for each way the
\* formatter can fail.
TimeSamples ==
    { TimeOf("+", 1879, 3, 14, 11, "Q1985727", 0, 0),
      TimeOf("-", 44, 3, 15, 11, "Q1985727", 0, 0),
      TimeOf("+", 1879, 0, 0, 7, "Q1985727", 0, 0),
      TimeOf("-", 13000, 0, 0, 3, "Q1985727", 0, 0),
      TimeOf("", 1879, 3, 14, 11, "Q1985727", 0, 0),
      TimeOf("+", 1879, 13, 14, 11, "Q1985727", 0, 0),
      TimeOf("+", 1879, 3, 14, 15, "Q1985727", 0, 0),
      TimeOf("-", 44, 3, 15, 11, "None", 0, 0),
      TimeOf("+", 1879, 3, 14, 9, "Q1985727", 9000, 0),
      TimeOf("+", 1879, 3, 14, 11, "Q1985727", 4000000, 0) }

\* Bound: the number of statements when their main values vary.
MaxValueStatements == 2

\* Statements that vary the property and the rank.
RankStatements ==
    { Statement(pid, rank, ItemValue("Q5")) : pid \in {"P31", "P279"}, rank \in Ranks }

\* Statements that vary the main value.
ValueStatements ==
    { Statement("P31", "normal", mv) :
        mv \in {ItemValue("Q5"), ItemValue("Q7"), ItemValue("Q9"), NoValue} }
    \cup { Statement("P569", "normal", TimeValue(t)) : t \in TimeSamples }

SeqsUpTo(S, n) == UNION { [1..k -> S] : k \in 0..n }

\* The datatype of a property: "datatype" of the main snak in JSON,
\* wikibase:propertyType of the property in Turtle.
PropDatatype(pid) ==
    CASE pid = "P569" -> "time"
      [] pid = "P625" -> "globe-coordinate"
      [] pid = "P2048" -> "quantity"
      [] pid = "P1687" -> "wikibase-property"
      [] pid = "P6254" -> "wikibase-lexeme"
      [] OTHER -> "wikibase-item"

\* ---- the JSON encoding (wbgetentities) --------------------------------

\* The "value" object of a time datavalue.  The raw time string is kept as
\* its parts; has_precision tells whether "precision" is a number or null.
JSONTime(t) ==
    [time |-> [sign |-> t.sign, year_e5 |-> t.year_e5, year |-> t.year,
               month |-> t.month, day |-> t.day],
     has_precision |-> TRUE, precision |-> t.precision,
     calendarmodel |-> t.calendar, before |-> t.before, after |-> t.after]

\* A string that is either a URI, split at its last "/", or has no "/".
EntityUri(id) == [ns |-> "http://www.wikidata.org/entity/", local |-> id]

PlainStr(text) == [ns |-> "", local |-> text]

\* The "value" object of a quantity datavalue: "unit" is the string "1"
\* for a quantity without unit, else the URI of the unit's item.
JSONQuantity(q) ==
    [has_amount |-> q.has_amount, amount |-> q.amount,
     has_unit |-> q.unit # "None",
     unit |-> IF q.unit = "1" THEN PlainStr("1") ELSE EntityUri(q.unit)]

\* One statement of the "claims" object.  rank "None": no "rank" key.
\* dv_type "None": no "datavalue" key.
JSONStatement(st) ==
    [rank |-> st.rank,
     snaktype |-> IF st.mv.kind = "novalue" THEN "novalue" ELSE "value",
     datatype |-> PropDatatype(st.pid),
     dv_type |-> CASE st.mv.kind = "item" -> "wikibase-entityid"
                   [] st.mv.kind = "time" -> "time"
                   [] st.mv.kind = "coord" -> "globecoordinate"
                   [] st.mv.kind = "quantity" -> "quantity"
                   [] OTHER -> "None",
     id |-> st.mv.id,
     value |-> JSONTime(st.mv.time),
     coord |-> st.mv.coord,
     quantity |-> JSONQuantity(st.mv.quantity)]

\* The distinct property ids of the statements, in order of appearance.
RECURSIVE PidOrder(_)
PidOrder(sts) ==
    IF sts = << >> THEN << >>
    ELSE LET rest == PidOrder(SelectSeq(Tail(sts), LAMBDA s : s.pid # Head(sts).pid))
         IN  <<Head(sts).pid>> \o rest

PidSet(sts) == {sts[i].pid : i \in DOMAIN sts}

OfPid(sts, pid) == SelectSeq(sts, LAMBDA s : s.pid = pid)

\* The "claims" object: property id -> list of statements.
EncodeJSON(fs) ==
    [order |-> PidOrder(fs),
     claims |-> [pid \in PidSet(fs) |->
                   [i \in DOMAIN OfPid(fs, pid) |-> JSONStatement(OfPid(fs, pid)[i])]]]

\* ---- the Turtle encoding ----------------------------------------------

\* wikibase:rank of a statement node; "None": no such triple.
RankUri(rank) ==
    CASE rank = "preferred" -> "http://wikiba.se/ontology#PreferredRank"
      [] rank = "normal" -> "http://wikiba.se/ontology#NormalRank"
      [] rank = "deprecated" -> "http://wikiba.se/ontology#DeprecatedRank"
      [] OTHER -> "None"

\* The value node of a time: xsd:dateTime writes a CE year without sign and
\* a BCE year with "-"; there is no predicate for before / after.
TTLTimeNode(t) ==
    [timeValue |-> [sign |-> IF t.sign = "-" THEN "-" ELSE "",
                    year_e5 |-> t.year_e5, year |-> t.year,
                    month |-> t.month, day |-> t.day],
     timePrecision |-> t.precision,
     timeCalendarModel |-> t.calendar]

\* The value node of a globe coordinate: wikibase:geoLatitude and
\* wikibase:geoLongitude, each absent when the number is missing.
TTLCoordNode(c) ==
    [has_geoLatitude |-> c.has_lat, geoLatitude |-> c.lat,
     has_geoLongitude |-> c.has_lon, geoLongitude |-> c.lon]

\* The value node of a quantity: wikibase:quantityAmount and
\* wikibase:quantityUnit.  The RDF export of Wikidata states the unit of
\* a quantity without unit as the item wd:Q199 (the number 1).
TTLQuantityNode(q) ==
    [has_quantityAmount |-> q.has_amount, quantityAmount |-> q.amount,
     has_quantityUnit |-> q.unit # "None",
     quantityUnit |-> EntityUri(IF q.unit = "1" THEN "Q199" ELSE q.unit)]

\* A statement node: p:<pid> links the subject to it; it is typed
\* wikibase:Statement; ps:<pid> / psv:<pid> are absent for novalue.  The
\* ps: object is the URI wd:<id> for a reference to an entity (ps_is_uri)
\* and a literal otherwise; psv: exists for times and coordinates.
TTLStatementNode(st) ==
    [pid |-> st.pid,
     rank |-> RankUri(st.rank),
     typed |-> TRUE,
     has_ps |-> st.mv.kind # "novalue",
     ps_is_uri |-> st.mv.kind = "item",
     ps |-> st.mv.id,
     has_psv |-> st.mv.kind \in {"time", "coord", "quantity"},
     psv_kind |-> IF st.mv.kind \in {"time", "coord", "quantity"} THEN st.mv.kind ELSE "None",
     psv |-> TTLTimeNode(st.mv.time),
     psv_coord |-> TTLCoordNode(st.mv.coord),
     psv_quantity |-> TTLQuantityNode(st.mv.quantity)]

\* wikibase:propertyType of a property, as the document states it.
PropertyTypeUri(pid) ==
    CASE PropDatatype(pid) = "time" -> "http://wikiba.se/ontology#Time"
      [] PropDatatype(pid) = "globe-coordinate" -> "http://wikiba.se/ontology#GlobeCoordinate"
      [] PropDatatype(pid) = "quantity" -> "http://wikiba.se/ontology#Quantity"
      [] PropDatatype(pid) = "wikibase-property" -> "http://wikiba.se/ontology#WikibaseProperty"
      [] PropDatatype(pid) = "wikibase-lexeme" -> "http://wikiba.se/ontology#WikibaseLexeme"
      [] OTHER -> "http://wikiba.se/ontology#WikibaseItem"

\* The ids that carry an rdfs:label inside the Turtle document.
DocLabelIds == {"P31", "Q5", "Q7"}

\* The rdfs:label triples of an id, as _lang_value_map and _compress_labels
\* turn them into a label map.
DocLabels(id) ==
    IF id = "Q7" THEN [l \in {"en"} |-> StrEntry("label in the document")]
    ELSE LabelStore[id]

EncodeTTL(fs) ==
    [statements |-> [i \in DOMAIN fs |-> TTLStatementNode(fs[i])],
     labels |-> [id \in DocLabelIds |-> DocLabels(id)]]

\* ---- the temporal formatter (utils.wikidata_time_to_text) --------------

\* A rendered instant: the year as written, the era written after it
\* ("None": no era), the month and the day (0: not written).
Instant(year, era, month, day) == [year |-> year, era |-> era, month |-> month, day |-> day]

NoInstant == Instant(0, "None", 0, 0)

\* A number too large for one machine integer, as e5 * 100000 + rest.
Wide(e5, rest) == [e5 |-> e5, rest |-> rest]

\* What a label says.  form: "geologic" (number, unit, era), "years" (a
\* range of years from start to end), "point" (one instant, start = end)
\* or "points" (a range of instants); pattern: the date pattern of an
\* instant; calendar: the calendar whose label is appended, "" for none.
LabelOf(form, number, unit, era, start, end, pattern, calendar) ==
    [form |-> form, number |-> number, unit |-> unit, era |-> era,
     start |-> start, end |-> end, pattern |-> pattern, calendar |-> calendar]

NoLabel == LabelOf("None", Wide(0, 0), "", "", NoInstant, NoInstant, "", "")

\* A call either returns a text or raises; exc "None" is a normal return.
\* text names the kind of label, label holds what it says.
Raise(kind) == [exc |-> kind, text |-> "", label |-> NoLabel]

Return(text, label) == [exc |-> "None", text |-> text, label |-> label]

Max2(a, b) == IF a >= b THEN a ELSE b

Min2(a, b) == IF a <= b THEN a ELSE b

IsLeap(y) == (y % 4 = 0 /\ y % 100 # 0) \/ y % 400 = 0

DaysInMonth(y, m) ==
    CASE m = 2 -> IF IsLeap(y) THEN 29 ELSE 28
      [] m \in {4, 6, 9, 11} -> 30
      [] OTHER -> 31

\* date.toordinal(): day 1 is 0001-01-01, the last one is 9999-12-31
Ordinal(y, m, d) ==
    LET before_month == <<0, 31, 59, 90, 120, 151, 181, 212, 243, 273, 304, 334>>
    IN  365 * (y - 1) + ((y - 1) \div 4) - ((y - 1) \div 100) + ((y - 1) \div 400)
          + before_month[m] + (IF m > 2 /\ IsLeap(y) THEN 1 ELSE 0) + d

\* date.fromordinal(n), for n within the datetime range
FromOrdinal(n) ==
    LET y == CHOOSE c \in ((n - 1) \div 366 + 1)..((n - 1) \div 365 + 1) :
                 Ordinal(c, 1, 1) <= n /\ n < Ordinal(c + 1, 1, 1)
        m == CHOOSE c \in 1..12 :
                 Ordinal(y, c, 1) <= n /\ (c = 12 \/ n < Ordinal(y, c + 1, 1))
    IN  Instant(y, "None", m, n - Ordinal(y, m, 1) + 1)

\* The whole days that n units of DELTA_BY_PREC[precision] add to a base
\* at 00:00:00 (floor division, n may be negative).
ShiftDays(precision, n) ==
    LET per_day == CASE precision = 12 -> 24
                     [] precision = 13 -> 1440
                     [] precision = 14 -> 86400
                     [] OTHER -> 1
    IN  IF n >= 0 THEN n \div per_day ELSE -(((-n) + per_day - 1) \div per_day)

\* The years that n units of DELTA_BY_PREC[precision] add, precision 6..9.
ShiftYears(precision, n) ==
    n * (CASE precision = 9 -> 1 [] precision = 8 -> 10 [] precision = 7 -> 100 [] OTHER -> 1000)

\* The months from year 0 to the month n months after month m of year y.
MonthCount(y, m, n) == 12 * y + (m - 1) + n

\* base + delta * n for delta = DELTA_BY_PREC[precision] (n < 0: base - delta * |n|)
\* on a base at 00:00:00.  relativedelta applies years and months with
\* datetime.replace, which raises ValueError outside years 1..9999, and the
\* smaller units by adding a timedelta, which raises OverflowError.
ShiftExc(y, m, d, precision, n) ==
    CASE precision \in 6..9 ->
           IF y + ShiftYears(precision, n) \in 1..9999 THEN "None" ELSE "ValueError"
      [] precision = 10 ->
           IF MonthCount(y, m, n) \div 12 \in 1..9999 THEN "None" ELSE "ValueError"
      [] OTHER ->
           IF Ordinal(y, m, d) + ShiftDays(precision, n) \in 1..Ordinal(9999, 12, 31)
           THEN "None" ELSE "OverflowError"

\* The date of base + delta * n when ShiftExc is "None"; relativedelta
\* clips the day to the length of the month it lands in.
ShiftAt(y, m, d, precision, n) ==
    CASE precision \in 6..9 ->
           Instant(y + ShiftYears(precision, n), "None", m,
                   Min2(d, DaysInMonth(y + ShiftYears(precision, n), m)))
      [] precision = 10 ->
           Instant(MonthCount(y, m, n) \div 12, "None", (MonthCount(y, m, n) % 12) + 1,
                   Min2(d, DaysInMonth(MonthCount(y, m, n) \div 12,
                                       (MonthCount(y, m, n) % 12) + 1)))
      [] OTHER -> FromOrdinal(Ordinal(y, m, d) + ShiftDays(precision, n))

\* The temporal labels the label store can supply: the composite units,
\* the year and the Julian calendar.
TemporalLabels ==
    {"billion_years", "million_years", "hundred_thousand_years", "year", "Q1985786"}

\* utils._astronomical_to_human_era: 0 -> 1 BC, -1 -> 2 BC, 1 -> 1
astronomical_to_human_era(year) ==
    IF year <= 0 THEN Instant(1 - year, "BC", 0, 0) ELSE Instant(year, "None", 0, 0)

\* utils._range_label: both endpoints in the human convention; the text
\* writes the era after each endpoint that has one when the eras differ,
\* and once after the range when both are BC.
range_label(y_start, y_end) ==
    LabelOf("years", Wide(0, 0), "", "",
            astronomical_to_human_era(y_start), astronomical_to_human_era(y_end), "y", "")

\* width = {8: 10, 7: 100, 6: 1000}[precision]
BucketWidth(precision) ==
    CASE precision = 8 -> 10 [] precision = 7 -> 100 [] OTHER -> 1000

\* Bucket bounds that are left in the human count of years.
bucket_bounds_human(y, precision) ==
    LET human == IF y <= 0 THEN 1 - y ELSE y
        base == (human \div BucketWidth(precision)) * BucketWidth(precision)
    IN  <<base, base + BucketWidth(precision) - 1>>

\* utils._bucket_bounds_astrological: <<a, b>> in astronomical years
bucket_bounds_astrological(y, precision) ==
    LET human == IF y <= 0 THEN 1 - y ELSE y
        base == (human \div BucketWidth(precision)) * BucketWidth(precision)
    IN  IF y <= 0 THEN <<1 - (base + BucketWidth(precision) - 1), 1 - base>>
        ELSE <<base, base + BucketWidth(precision) - 1>>

\* Widened bounds that leave before out.
widened_bounds_no_before(y, precision, before, after) ==
    LET width == BucketWidth(precision)
        human == IF y <= 0 THEN 1 - y ELSE y
        low_h == (human \div width) * width - after * width
        high_h == (human \div width) * width + (width - 1)
    IN  IF y <= 0 THEN <<1 - high_h, 1 - low_h>> ELSE <<low_h, high_h>>

\* The bounds wikidata_time_to_text recomputes when before or after is
\* given: the bucket widened by that many widths.
widened_bounds(y, precision, before, after) ==
    LET width == BucketWidth(precision)
        human == IF y <= 0 THEN 1 - y ELSE y
        low_h == (human \div width) * width - after * width
        high_h == (human \div width) * width + (width - 1) + before * width
    IN  IF y <= 0 THEN <<1 - high_h, 1 - low_h>> ELSE <<low_h, high_h>>

\* utils._format_years_with_cldr_or_wd: the plain count of years and the era
format_years_with_cldr_or_wd(abs_year) ==
    LabelOf("geologic", abs_year, "years", "BC", NoInstant, NoInstant, "", "")

\* The count and composite unit _format_geologic ends with.
Composite(count, key, abs_year, store) ==
    IF key \in store
    THEN LabelOf("geologic", Wide(0, count), key, "BC", NoInstant, NoInstant, "", "")
    ELSE format_years_with_cldr_or_wd(abs_year)

\* utils._format_geologic on abs_year = e5 * 100000 + rest, rest < 100000
format_geologic(abs_year, store) ==
    IF abs_year.rest = 0 /\ abs_year.e5 % 10000 = 0
    THEN Composite(abs_year.e5 \div 10000, "billion_years", abs_year, store)
    ELSE IF abs_year.rest = 0 /\ abs_year.e5 % 10 = 0
    THEN Composite(abs_year.e5 \div 10, "million_years", abs_year, store)
    ELSE IF abs_year.rest = 0 /\ abs_year.e5 # 1
    THEN Composite(abs_year.e5, "hundred_thousand_years", abs_year, store)
    ELSE format_years_with_cldr_or_wd(abs_year)

\* The date pattern _format_point uses for a precision.
PointPattern(precision) ==
    CASE precision = 14 -> "long HH:mm:ss"
      [] precision = 13 -> "long HH:mm"
      [] precision = 12 -> "long HH"
      [] precision = 11 -> "long"
      [] precision = 10 -> "MMMM y"
      [] precision = 9 -> "y"
      [] OTHER -> ""

\* What _format_point writes of the datetime dt (an Instant) at a precision.
PointShown(dt, precision) ==
    CASE precision >= 11 -> dt
      [] precision = 10 -> Instant(dt.year, "None", dt.month, 0)
      [] precision = 9 -> Instant(IF dt.year > 0 THEN dt.year ELSE 1, "None", 0, 0)
      [] OTHER -> NoInstant

\* utils._format_point for the label of one instant
format_point(dt, precision) ==
    IF precision >= 12 /\ precision \notin {12, 13, 14} THEN Raise("KeyError")
    ELSE Return(CASE precision >= 12 -> "long date and time"
                  [] precision = 11 -> "long date"
                  [] precision = 10 -> "month and year"
                  [] precision = 9 -> "year"
                  [] OTHER -> "",
                LabelOf("point", Wide(0, 0), "", "", PointShown(dt, precision),
                        PointShown(dt, precision), PointPattern(precision), ""))

\* label = f"{_format_point(start)}-{_format_point(end)}" with
\* start = base - delta * after and end = base + delta * before
format_points(y, m, d, precision, before, after) ==
    IF precision \notin 6..14 THEN Raise("KeyError")
    ELSE IF after # 0 /\ ShiftExc(y, m, d, precision, -after) # "None"
    THEN Raise(ShiftExc(y, m, d, precision, -after))
    ELSE IF before # 0 /\ ShiftExc(y, m, d, precision, before) # "None"
    THEN Raise(ShiftExc(y, m, d, precision, before))
    ELSE Return("range of points",
                LabelOf("points", Wide(0, 0), "", "",
                        PointShown(ShiftAt(y, m, d, precision, -after), precision),
                        PointShown(ShiftAt(y, m, d, precision, before), precision),
                        PointPattern(precision), ""))

\* precision = int(value.get("precision", 11) or 11)
PrecisionOf(value) ==
    IF value.has_precision /\ value.precision # 0 THEN value.precision ELSE 11

\* y of _parse_iso: the signed year.  Years of more than nine digits only
\* occur on the deep-time path, which uses abs(y).
AstronomicalYear(time) ==
    (IF time.sign = "-" THEN -1 ELSE 1) * (time.year_e5 * 100000 + time.year)

\* abs(y)
AbsYear(time) == Wide(time.year_e5 + time.year \div 100000, time.year % 100000)

\* The year of base: min(max(abs(y), 1), 9999)
BaseYear(time) == IF time.year_e5 > 0 THEN 9999 ELSE Min2(Max2(time.year, 1), 9999)

\* The label of the bucketed range of years
format_bucket(ab) == Return("range of years", range_label(ab[1], ab[2]))

\* The part of wikidata_time_to_text after base was created: the dispatch
\* on the precision.  base is (y, m, d) at 00:00:00, timezone 0.
time_label(value, precision, y, m, d) ==
    IF precision <= 5
    THEN Return("years before the common era", NoLabel)
    ELSE IF precision \in {6, 7, 8}
    THEN format_bucket(
             IF value.before # 0 \/ value.after # 0
             THEN widened_bounds(AstronomicalYear(value.time), precision,
                                 value.before, value.after)
             ELSE bucket_bounds_astrological(AstronomicalYear(value.time), precision))
    ELSE IF value.before # 0 \/ value.after # 0
    THEN format_points(y, m, d, precision, value.before, value.after)
    ELSE format_point(Instant(y, "None", m, d), precision)

\* The calendar label appended for a calendar other than the Gregorian
\* one when the label store has it; the deep-time path returns before.
with_calendar(r, precision, calendarmodel, store) ==
    IF r.exc # "None" THEN r
    ELSE IF precision <= 5 THEN r
    ELSE IF calendarmodel # "Q1985727" /\ calendarmodel \in store
    THEN [r EXCEPT !.label.calendar = calendarmodel]
    ELSE r

\* The deep-time label is computed from abs(y) alone.
with_geologic(r, precision, abs_year, store) ==
    IF r.exc = "None" /\ precision <= 5
    THEN [r EXCEPT !.label = format_geologic(abs_year, store)]
    ELSE r

\* utils.wikidata_time_to_text(value, lang); store: the temporal labels
\* the label store supplies.
wikidata_time_to_text(value, store) ==
    IF value.time.sign \notin {"+", "-"} THEN Raise("ValueError")
    ELSE IF value.calendarmodel = "None" THEN Raise("AttributeError")
    ELSE IF Max2(value.time.month, 1) > 12
            \/ Max2(value.time.day, 1) >
                 DaysInMonth(BaseYear(value.time), Max2(value.time.month, 1))
    THEN Raise("ValueError")
    ELSE with_calendar(
             with_geologic(
                 time_label(value, PrecisionOf(value), BaseYear(value.time),
                            Max2(value.time.month, 1), Max2(value.time.day, 1)),
                 PrecisionOf(value), AbsYear(value.time), store),
             PrecisionOf(value), value.calendarmodel, store)

\* ---- value objects ------------------------------------------------------

NoneValue == [type |-> "None", id |-> "", string_val |-> ""]

\* WikidataCoordinates(latitude=lat, longitude=lon, string_val=string_val);
\* the display string is kept as the formatter's record in geo.
WikidataCoordinates(lat, lon, geo) ==
    [type |-> "coordinates", id |-> "", string_val |-> "dms", lat |-> lat, lon |-> lon,
     geo |-> geo]

\* WikidataEntity(id=id, label=label_factory.create(id), ...) as a value
EntityValue(id) == [type |-> "entity", id |-> id, string_val |-> ""]

\* WikidataTime(..., string_val=string_val)
WikidataTime(string_val) == [type |-> "time", id |-> "", string_val |-> string_val]

\* WikidataQuantity(amount=amount, unit=unit_label, unit_id=unit_id);
\* unit_id "": None; unit "LazyLabel": label_factory.create(unit_id),
\* "None": no label object.
WikidataQuantity(amount, unit, unit_id) ==
    [type |-> "quantity", id |-> unit_id, string_val |-> amount, unit |-> unit]

\* WikidataText(text=text)
WikidataText(text) == [type |-> "text", id |-> "", string_val |-> text]

\* WikidataClaimValue(value=value, rank=rank)
WikidataClaimValue(value, rank) == [value |-> value, rank |-> rank]

\* WikidataClaim(property=WikidataEntity(id=pid, label=create(pid)), ...)
WikidataClaim(pid, datatype, values) ==
    [pid |-> pid, datatype |-> datatype, values |-> values]

\* The first letter of an id when it is Q or P, as
\* str.startswith(("Q", "P")) tests it; "" for any other id (a lexeme L7).
IdLetter(id) ==
    CASE id \in {"Q5", "Q7", "Q9", "Q404", "Q42", "Q11573", "Q199"} -> "Q"
      [] id \in {"P31", "P279", "P569", "P625", "P1687", "P6254", "P2048"} -> "P"
      [] OTHER -> ""

\* ---- the spatial formatter (utils.wikidata_geolocation_to_text) --------

\* Python values passed as arguments: a float (in units of 1/10000), a
\* dict or a str.
PyFloat(x) == [type |-> "float", x |-> x]

PyDict == [type |-> "dict", x |-> 0]

PyStr == [type |-> "str", x |-> 0]

Abs(x) == IF x >= 0 THEN x ELSE -x

\* One coordinate of wikidata_geolocation_to_text: x is abs(coordinate),
\* the hemisphere letter is chosen from x, that is after abs() was taken.
\* Seconds are kept in tenths (round(seconds, 1)).
GeoPart(x, positive, negative) ==
    LET degrees == x \div 10000
        minutes_full == (x % 10000) * 60
        minutes == minutes_full \div 10000
        tenths == ((minutes_full % 10000) * 600 + 5000) \div 10000
    IN  [degrees |-> degrees, minutes |-> minutes, tenths |-> tenths,
         hemi |-> IF x >= 0 THEN positive ELSE negative]

\* utils.wikidata_geolocation_to_text(latitude, longitude): abs() of an
\* argument that is not a number raises TypeError.
wikidata_geolocation_to_text(latitude, longitude) ==
    IF latitude.type # "float" \/ longitude.type # "float"
    THEN [exc |-> "TypeError", lat |-> GeoPart(0, "", ""), lon |-> GeoPart(0, "", "")]
    ELSE [exc |-> "None",
          lat |-> GeoPart(Abs(latitude.x), "N", "S"),
          lon |-> GeoPart(Abs(longitude.x), "E", "W")]

\* The first exception of a sequence of outcomes, "None" if there is none.
FirstExc(rs) ==
    IF \A i \in DOMAIN rs : rs[i].exc = "None" THEN "None"
    ELSE rs[CHOOSE i \in DOMAIN rs :
              /\ rs[i].exc # "None"
              /\ \A j \in DOMAIN rs : rs[j].exc # "None" => i <= j].exc

\* The value holds a lazy label: an entity, or a quantity with a unit label.
HasLazyLabel(v) ==
    \/ v.type = "entity"
    \/ v.type = "quantity" /\ v.unit = "LazyLabel"

\* The ids a claim has registered with label_factory.create.
CreatedIds(claim) ==
    {claim.pid} \cup {claim.values[i].value.id :
                        i \in {j \in DOMAIN claim.values : HasLazyLabel(claim.values[j].value)}}

\* The quantity branch of _to_value_object in both normalizers, q being
\* the dict with "amount" and "unit" (has_unit FALSE: unit is None).
QuantityObject(q) ==
    IF q.has_unit /\ q.unit # PlainStr("1")
    THEN WikidataQuantity(q.amount,
                          IF IdLetter(q.unit.local) = "Q" THEN "LazyLabel" ELSE "None",
                          q.unit.local)
    ELSE WikidataQuantity(q.amount, "None", "")

RECURSIVE CreateAll(_, _)
CreateAll(f, ids) ==
    IF ids = {} THEN f
    ELSE LET id == CHOOSE x \in ids : TRUE
         IN  CreateAll(create(f, id), ids \ {id})

\* ---- JSONNormalizer -----------------------------------------------------

\* The exceptions _to_value_object catches around the temporal formatter.
JSONCaught == {"ValueError", "TypeError"}

\* try: string_val = wikidata_time_to_text(...) except <caught>: return None
\* followed by return WikidataTime(...); r is the outcome of the call.
TryTime(r, caught) ==
    IF r.exc = "None" THEN [exc |-> "None", value |-> WikidataTime(r.text)]
    ELSE IF r.exc \in caught THEN [exc |-> "None", value |-> NoneValue]
    ELSE [exc |-> r.exc, value |-> NoneValue]

\* try: string_val = wikidata_geolocation_to_text(...) except <caught>:
\* return None, followed by return WikidataCoordinates(...)
TryGeo(r, caught, lat, lon) ==
    IF r.exc = "None" THEN [exc |-> "None", value |-> WikidataCoordinates(lat, lon, r)]
    ELSE IF r.exc \in caught THEN [exc |-> "None", value |-> NoneValue]
    ELSE [exc |-> r.exc, value |-> NoneValue]

\* WikidataClaimValue(value=<outcome r of _to_value_object>, rank=rank)
ClaimValueOf(r, rank) == [exc |-> r.exc, cv |-> WikidataClaimValue(r.value, rank)]

\* The claim with the values rs, or the first exception raised for one.
ClaimOf(pid, datatype, rs) ==
    [exc |-> FirstExc(rs),
     claim |-> WikidataClaim(pid, datatype, [i \in DOMAIN rs |-> rs[i].cv])]

\* A rank filter that keeps normal statements beside preferred ones.
JSON_filter_by_rank_keep_normal(statements, ar) ==
    IF ar THEN statements
    ELSE SelectSeq(statements, LAMBDA s : s.rank \in {"None", "preferred", "normal"})

\* JSONNormalizer._filter_by_rank
JSON_filter_by_rank(statements, ar) ==
    IF ar THEN statements
    ELSE LET has_preferred ==
                 \E i \in DOMAIN statements : statements[i].rank = "preferred"
         IN  SelectSeq(statements, LAMBDA s :
                 \/ s.rank = "None"
                 \/ has_preferred /\ s.rank = "preferred"
                 \/ ~has_preferred /\ s.rank = "normal")

\* JSONNormalizer._to_value_object: [exc, value]
JSON_to_value_object(datatype, st) ==
    IF st.dv_type = "None" THEN [exc |-> "None", value |-> NoneValue]
    ELSE IF st.dv_type = "wikibase-entityid"
            \/ datatype \in {"wikibase-item", "wikibase-property"}
    THEN [exc |-> "None",
          value |-> IF IdLetter(st.id) \in {"Q", "P"}
                    THEN EntityValue(st.id) ELSE WikidataText(st.id)]
    ELSE IF st.dv_type = "time" \/ datatype = "time"
    THEN TryTime(wikidata_time_to_text(st.value, TemporalLabels), JSONCaught)
    ELSE IF st.dv_type = "quantity" \/ datatype = "quantity"
    THEN [exc |-> "None",
          value |-> IF ~st.quantity.has_amount THEN NoneValue
                    ELSE QuantityObject(st.quantity)]
    ELSE IF st.dv_type = "globe-coordinate" \/ datatype = "globe-coordinate"
    THEN IF ~st.coord.has_lat \/ ~st.coord.has_lon
         THEN [exc |-> "None", value |-> NoneValue]
         ELSE TryGeo(wikidata_geolocation_to_text(PyDict, PyStr), JSONCaught,
                     st.coord.lat, st.coord.lon)
    ELSE [exc |-> "None", value |-> WikidataText(st.id)]

\* JSONNormalizer._build_claim_value: [exc, cv]
JSON_build_claim_value(st, datatype) ==
    IF st.snaktype # "value"
    THEN [exc |-> "None", cv |-> WikidataClaimValue(NoneValue, st.rank)]
    ELSE ClaimValueOf(JSON_to_value_object(datatype, st), st.rank)

\* JSONNormalizer._build_claim: [exc, claim]
JSON_claim_values(kept, datatype) ==
    [i \in DOMAIN kept |-> JSON_build_claim_value(kept[i], datatype)]

JSON_claim_datatype_from_statements(statements) ==
    IF statements = << >> THEN "string" ELSE statements[1].datatype

JSON_build_claim(pid, statements, ar) ==
    ClaimOf(pid, JSON_claim_datatype_from_statements(statements),
            JSON_claim_values(JSON_filter_by_rank(statements, ar),
                              JSON_claim_datatype_from_statements(statements)))

\* ---- TTLNormalizer ------------------------------------------------------

\* The exceptions _to_value_object catches around the temporal formatter.
TTLCaught == {"ValueError", "TypeError", "KeyError", "RequestException"}

\* A rank conversion that reads no rank at all.
TTL_rank_to_str_none(rank_uri) == "None"

\* TTLNormalizer._rank_to_str
TTL_rank_to_str(rank_uri) ==
    CASE rank_uri = "http://wikiba.se/ontology#PreferredRank" -> "preferred"
      [] rank_uri = "http://wikiba.se/ontology#NormalRank" -> "normal"
      [] rank_uri = "http://wikiba.se/ontology#DeprecatedRank" -> "deprecated"
      [] OTHER -> "None"

\* TTLNormalizer._is_statement_node
TTL_is_statement_node(node) ==
    node.rank # "None" \/ node.has_ps \/ node.has_psv \/ node.typed

\* A property filter that skips nothing.
PidFiltered_never(fp, pid) == FALSE

\* `if filter_pids and pid not in filter_pids: continue` of both
\* normalizers: the property is skipped.
PidFiltered(fp, pid) == fp # {} /\ pid \notin fp

\* TTLNormalizer._is_special_main_value
TTL_is_special_main_value(node) == ~node.has_ps /\ ~node.has_psv

\* TTLNormalizer._time_from_node: the parsed dict has no before / after
TTL_time_from_node(node) ==
    [time |-> node.timeValue,
     has_precision |-> TRUE, precision |-> node.timePrecision,
     calendarmodel |-> node.timeCalendarModel, before |-> 0, after |-> 0]

\* TTLNormalizer._coord_from_node
TTL_coord_from_node(node) ==
    CoordOf(node.has_geoLatitude, node.geoLatitude, node.has_geoLongitude, node.geoLongitude)

\* TTLNormalizer._quantity_from_node: the unit is "1" when the node
\* states none
TTL_quantity_from_node(node) ==
    [has_amount |-> node.has_quantityAmount, amount |-> node.quantityAmount,
     has_unit |-> TRUE,
     unit |-> IF node.has_quantityUnit THEN node.quantityUnit ELSE PlainStr("1")]

NoParsed ==
    [kind |-> "None", id |-> "", value |-> TTL_time_from_node(TTLTimeNode(NoTime)),
     coord |-> NoCoord, quantity |-> TTL_quantity_from_node(TTLQuantityNode(NoQuantity))]

\* TTLNormalizer._qid_from_wd_uri on wd:<id>: the id when it is Q or P
\* followed by digits, else None
TTL_qid_from_wd_uri(id) == IF IdLetter(id) \in {"Q", "P"} THEN id ELSE "None"

\* TTLNormalizer._prop_datatype(pid, statement_node)
TTL_prop_datatype(pid, node) ==
    CASE PropertyTypeUri(pid) = "http://wikiba.se/ontology#WikibaseItem" -> "wikibase-item"
      [] PropertyTypeUri(pid) = "http://wikiba.se/ontology#Quantity" -> "quantity"
      [] PropertyTypeUri(pid) = "http://wikiba.se/ontology#Time" -> "time"
      [] PropertyTypeUri(pid) = "http://wikiba.se/ontology#GlobeCoordinate" -> "globe-coordinate"
      [] OTHER ->
           IF node.has_psv /\ node.psv_kind = "time" THEN "time"
           ELSE IF node.has_psv /\ node.psv_kind = "quantity"
                   /\ node.psv_quantity.has_quantityAmount
                THEN "quantity"
           ELSE IF node.has_psv /\ node.psv_kind = "coord" /\ node.psv_coord.has_geoLatitude
                THEN "globe-coordinate"
           ELSE IF node.has_ps /\ node.ps_is_uri /\ IdLetter(TTL_qid_from_wd_uri(node.ps)) = "Q"
                THEN "wikibase-item"
           ELSE "string"

\* TTLNormalizer._parse_rich_value_node
TTL_parse_rich_value_node(datatype, node) ==
    CASE datatype = "time" ->
           [NoParsed EXCEPT !.kind = "time", !.value = TTL_time_from_node(node.psv)]
      [] datatype = "globe-coordinate" ->
           IF node.psv_coord.has_geoLatitude /\ node.psv_coord.has_geoLongitude
           THEN [NoParsed EXCEPT !.kind = "coord", !.coord = TTL_coord_from_node(node.psv_coord)]
           ELSE NoParsed
      [] datatype = "quantity" ->
           IF node.psv_quantity.has_quantityAmount
           THEN [NoParsed EXCEPT !.kind = "quantity",
                                 !.quantity = TTL_quantity_from_node(node.psv_quantity)]
           ELSE NoParsed
      [] OTHER -> NoParsed

\* TTLNormalizer._parse_ps_value
TTL_parse_ps_value(datatype, node) ==
    IF datatype = "wikibase-item" /\ node.ps_is_uri
    THEN IF TTL_qid_from_wd_uri(node.ps) = "None" THEN NoParsed
         ELSE [NoParsed EXCEPT !.kind = "qid", !.id = node.ps]
    ELSE [NoParsed EXCEPT !.kind = "str", !.id = node.ps]

\* TTLNormalizer._main_value
TTL_main_value(node, datatype) ==
    IF ~TTL_is_statement_node(node) THEN NoParsed
    ELSE IF node.has_psv /\ TTL_parse_rich_value_node(datatype, node) # NoParsed
    THEN TTL_parse_rich_value_node(datatype, node)
    ELSE IF ~node.has_ps THEN NoParsed
    ELSE TTL_parse_ps_value(datatype, node)

\* The statement dict _claims_for_subject appends for a statement node.
TTL_statement_dict(node) ==
    [pid |-> node.pid,
     datatype |-> TTL_prop_datatype(node.pid, node),
     rank |-> IF node.rank # "None" THEN TTL_rank_to_str(node.rank) ELSE "None",
     main |-> IF TTL_is_special_main_value(node) THEN NoParsed
              ELSE TTL_main_value(node, TTL_prop_datatype(node.pid, node)),
     is_special_value |-> TTL_is_special_main_value(node)]

\* TTLNormalizer._claims_for_subject: property id -> kept statement dicts
\* A rank filter that looks for a normal statement where it should look
\* for a preferred one.
TTL_keep_by_normal(sts) ==
    LET has_preferred == \E i \in DOMAIN sts : sts[i].rank = "normal"
    IN  SelectSeq(sts, LAMBDA s :
            \/ s.rank = "None"
            \/ has_preferred /\ s.rank = "preferred"
            \/ ~has_preferred /\ s.rank = "normal")

\* The rank filtering at the end of _claims_for_subject, for one property.
TTL_keep(sts) ==
    LET has_preferred == \E i \in DOMAIN sts : sts[i].rank = "preferred"
    IN  SelectSeq(sts, LAMBDA s :
            \/ s.rank = "None"
            \/ has_preferred /\ s.rank = "preferred"
            \/ ~has_preferred /\ s.rank = "normal")

\* out: the statement dicts in document order; the result groups them by
\* property and filters each group unless all_ranks.
TTL_group(out, ar) ==
    [order |-> PidOrder(out),
     claims |-> [pid \in PidSet(out) |->
                   IF ar THEN OfPid(out, pid) ELSE TTL_keep(OfPid(out, pid))]]

TTL_statement_dicts(nodes) == [i \in DOMAIN nodes |-> TTL_statement_dict(nodes[i])]

TTL_claims_for_subject(doc, ar, fp) ==
    TTL_group(TTL_statement_dicts(
                  SelectSeq(doc.statements,
                            LAMBDA node : ~PidFiltered(fp, node.pid)
                                          /\ TTL_is_statement_node(node))), ar)

\* TTLNormalizer._to_value_object: [exc, value]
TTL_to_value_object(datatype, parsed) ==
    IF parsed.kind = "None" THEN [exc |-> "None", value |-> NoneValue]
    ELSE IF datatype = "wikibase-item"
    THEN [exc |-> "None",
          value |-> IF parsed.kind = "qid" /\ IdLetter(parsed.id) = "Q"
                    THEN EntityValue(parsed.id) ELSE WikidataText(parsed.id)]
    ELSE IF datatype = "time"
    THEN IF parsed.kind # "time" THEN [exc |-> "None", value |-> NoneValue]
         ELSE TryTime(wikidata_time_to_text(parsed.value, TemporalLabels), TTLCaught)
    ELSE IF datatype = "quantity"
    THEN [exc |-> "None",
          value |-> IF parsed.kind # "quantity" \/ ~parsed.quantity.has_amount THEN NoneValue
                    ELSE QuantityObject(parsed.quantity)]
    ELSE IF datatype = "globe-coordinate"
    THEN IF parsed.kind # "coord" \/ ~parsed.coord.has_lat \/ ~parsed.coord.has_lon
         THEN [exc |-> "None", value |-> NoneValue]
         ELSE TryGeo(wikidata_geolocation_to_text(PyDict, PyStr), TTLCaught,
                     parsed.coord.lat, parsed.coord.lon)
    ELSE [exc |-> "None", value |-> WikidataText(parsed.id)]

\* TTLNormalizer._build_claim_object: [exc, claim]
TTL_build_claim_object(pid, statements) ==
    ClaimOf(pid, statements[1].datatype,
            [i \in DOMAIN statements |->
               ClaimValueOf(TTL_to_value_object(statements[i].datatype, statements[i].main),
                            statements[i].rank)])

\* ---- truthiness and rendering -------------------------------------------
\* JSONNormalizer builds the classes of src/WikidataTextifier.py ("old"),
\* TTLNormalizer those of src/Textifier/WikidataTextifier.py ("new").  The
\* factory f passed to these operators is the one after resolve_all.

\* str(entity) in the old module: WikidataEntity.__str__ of a value entity
\* (no description, aliases or claims) is its label string.
Old_WikidataEntity_str(f, v) == get_label(f, v.id)

\* str(entity) in the new module: the class defines no __str__, so this is
\* the dataclass repr, which is never empty.
New_WikidataEntity_str(f, v) == "WikidataEntity(...)"

\* str(value) for the value of a WikidataClaimValue
ValueStr(module, f, v) ==
    CASE v.type = "entity" ->
           IF module = "old" THEN Old_WikidataEntity_str(f, v)
           ELSE New_WikidataEntity_str(f, v)
      [] v.type = "None" -> "None"
      [] OTHER -> v.string_val

\* str(self.unit) of a quantity: the lazy label's text, or "None".
UnitStr(f, q) == IF q.unit = "LazyLabel" THEN get_label(f, q.id) ELSE "None"

\* WikidataQuantity.__str__ of a quantity with an amount, as its words:
\* f"{self.amount} {str(self.unit)}" with a unit id, else the amount.
WikidataQuantity_str(f, q) ==
    IF q.id # "" THEN <<q.string_val, UnitStr(f, q)>> ELSE <<q.string_val>>

\* WikidataQuantity.to_json of a quantity with an amount: an object with
\* the amount, the unit label and the unit id, or the amount string.
WikidataQuantity_to_json(f, q) ==
    IF q.id # ""
    THEN [shape |-> "object", words |-> <<q.string_val, UnitStr(f, q)>>, unit_QID |-> q.id]
    ELSE [shape |-> "string", words |-> <<q.string_val>>, unit_QID |-> ""]

\* WikidataEntity.__bool__ of a value entity: the id is set and the label
\* is neither None nor the empty string.
WikidataEntity_bool(f, v) == v.id # "" /\ get_label(f, v.id) # ""

\* A claim value that counts as present whatever it holds.
WikidataClaimValue_bool_any(module, f, cv) == TRUE

\* WikidataClaimValue.__bool__
WikidataClaimValue_bool(module, f, cv) ==
    cv.value.type # "None" /\ ValueStr(module, f, cv.value) # ""

\* WikidataClaim.__bool__
WikidataClaim_bool(module, f, c) ==
    /\ get_label(f, c.pid) # ""
    /\ Len(c.values) > 0
    /\ \E i \in DOMAIN c.values : WikidataClaimValue_bool(module, f, c.values[i])

TruthyValues(module, f, c) ==
    SelectSeq(c.values, LAMBDA cv : WikidataClaimValue_bool(module, f, cv))

TruthyClaims(module, f, claims) ==
    SelectSeq(claims, LAMBDA c : WikidataClaim_bool(module, f, c))

\* The text a rendered value shows: the label of an entity, else str(value).
ShownText(f, v) ==
    CASE v.type = "entity" -> get_label(f, v.id)
      [] v.type = "None" -> "None"
      [] OTHER -> v.string_val

\* WikidataClaimValue.to_json: "rank" is emitted when the rank is truthy.
ClaimValue_to_json(f, cv) ==
    [kind |-> cv.value.type, id |-> cv.value.id, text |-> ShownText(f, cv.value),
     mark |-> cv.rank]

\* WikidataClaimValue.__str__ / to_text and to_triplet
ClaimValue_to_text(f, cv) ==
    [kind |-> cv.value.type, id |-> cv.value.id, text |-> ShownText(f, cv.value),
     mark |-> IF cv.rank = "deprecated" THEN "[deprecated]" ELSE ""]

\* WikidataClaim.to_json: no truthiness test of its own
Claim_to_json(module, f, c) ==
    LET vs == TruthyValues(module, f, c)
    IN  [pid |-> c.pid, property_label |-> get_label(f, c.pid),
         values |-> [i \in DOMAIN vs |-> ClaimValue_to_json(f, vs[i])]]

\* WikidataClaim.__str__ / to_text and to_triplet: called on truthy claims
Claim_to_text(module, f, c) ==
    LET vs == TruthyValues(module, f, c)
    IN  [pid |-> c.pid, property_label |-> get_label(f, c.pid),
         values |-> [i \in DOMAIN vs |-> ClaimValue_to_text(f, vs[i])]]

\* WikidataEntity.to_json
Entity_to_json(module, f, e) ==
    LET cs == TruthyClaims(module, f, e.claims)
    IN  [format |-> "json",
         label |-> IF e.label # "" THEN e.label ELSE "None",
         claims |-> [i \in DOMAIN cs |-> Claim_to_json(module, f, cs[i])]]

\* WikidataEntity.__str__ (old) / to_text (new): the head and one
\* attribute per truthy claim
Entity_to_text(module, f, e) ==
    LET cs == TruthyClaims(module, f, e.claims)
    IN  [format |-> "text",
         label |-> IF e.label # "" THEN e.label ELSE "<missing>",
         claims |-> [i \in DOMAIN cs |-> Claim_to_text(module, f, cs[i])]]

\* WikidataEntity.to_triplet: one line per truthy value of a truthy claim
Entity_to_triplet(module, f, e) ==
    LET cs == TruthyClaims(module, f, e.claims)
    IN  [format |-> "triplet",
         label |-> IF e.label # "" THEN e.label ELSE "<missing>",
         claims |-> [i \in DOMAIN cs |-> Claim_to_text(module, f, cs[i])]]

Formats == {"json", "text", "triplet"}

Render(format, module, f, e) ==
    CASE format = "json" -> Entity_to_json(module, f, e)
      [] format = "text" -> Entity_to_text(module, f, e)
      [] OTHER -> Entity_to_triplet(module, f, e)

NoShown == [format |-> "None", label |-> "", claims |-> << >>]

\* ---- normalize ----------------------------------------------------------

\* The subject's labels in both documents.
SubjectLabels == [l \in {"en"} |-> DictEntry("Douglas Adams")]

\* The outcome of a normalize call.  built: every claim object that was
\* constructed; claims: entity.claims; lookups: the id sets passed to
\* get_bulk_labels while normalize ran; shown_lookups: the ids passed to
\* it while the entity was rendered.
NotRun ==
    [status |-> "not run", exc |-> "None", label |-> "", claims |-> << >>,
     built |-> << >>, factory |-> NewFactory, lookups |-> << >>, shown_lookups |-> {}]

\* The loop of JSONNormalizer.normalize over claims_in.items(): build the
\* claim, test `claim_obj and claim_obj.values` (WikidataClaim.__bool__
\* stringifies the property's lazy label, which resolves everything
\* pending), and append.
\* `if claim_obj and claim_obj.values: claims_out.append(claim_obj)`, with
\* created the factory after the create() calls of _build_claim.
JSON_test_and_append(acc, claim, created) ==
    [acc EXCEPT !.built = Append(@, claim),
                !.claims = IF WikidataClaim_bool("old", resolve_all(created), claim)
                              /\ claim.values # << >>
                           THEN Append(@, claim) ELSE @,
                !.factory = resolve_all(created),
                !.lookups = IF LookupIds(created) # {}
                            THEN Append(@, LookupIds(created)) ELSE @]

\* One round of the loop, r being the outcome of _build_claim.
JSON_loop_body(acc, r) ==
    IF r.exc # "None" THEN [acc EXCEPT !.status = "raised", !.exc = r.exc]
    ELSE JSON_test_and_append(acc, r.claim, CreateAll(acc.factory, CreatedIds(r.claim)))

RECURSIVE JSON_claims_loop(_, _, _, _, _)
JSON_claims_loop(pids, claims_in, ar, fp, acc) ==
    IF pids = << >> \/ acc.status = "raised" THEN acc
    ELSE IF PidFiltered(fp, Head(pids))
    THEN JSON_claims_loop(Tail(pids), claims_in, ar, fp, acc)
    ELSE JSON_claims_loop(Tail(pids), claims_in, ar, fp,
            JSON_loop_body(acc, JSON_build_claim(Head(pids), claims_in[Head(pids)], ar)))

\* JSONNormalizer.normalize
JSON_normalize(e, lang, fallback_lang, ar, fp) ==
    JSON_claims_loop(e.claims.order, e.claims.claims, ar, fp,
        [NotRun EXCEPT !.status = "returned",
                       !.label = get_lang_val(e.labels, lang, fallback_lang)])

\* TTLNormalizer.normalize: the label cache of the document is preloaded,
\* then one claim object is built per property with kept statements.
\* The claim objects of the comprehension at the end of normalize.
TTL_claim_objects(claims_dict) ==
    LET pids == SelectSeq(claims_dict.order, LAMBDA pid : claims_dict.claims[pid] # << >>)
    IN  [i \in DOMAIN pids |-> TTL_build_claim_object(pids[i], claims_dict.claims[pids[i]])]

\* The entity normalize returns, rs being the outcomes of _build_claim_object
\* and preloaded the factory holding the label cache of the document.
TTL_entity(label, rs, preloaded) ==
    IF FirstExc(rs) # "None"
    THEN [NotRun EXCEPT !.status = "raised", !.exc = FirstExc(rs)]
    ELSE [NotRun EXCEPT
            !.status = "returned",
            !.label = label,
            !.claims = [i \in DOMAIN rs |-> rs[i].claim],
            !.built = [i \in DOMAIN rs |-> rs[i].claim],
            !.factory = CreateAll(preloaded,
                            UNION {CreatedIds(rs[i].claim) : i \in DOMAIN rs})]

\* A normalize that does not preload the labels of the document.
TTL_normalize_no_preload(doc, lang, fallback_lang, ar, fp) ==
    TTL_entity(get_lang_val(doc.subject_labels, lang, fallback_lang),
               TTL_claim_objects(TTL_claims_for_subject(doc, ar, fp)),
               NewFactory)

TTL_normalize(doc, lang, fallback_lang, ar, fp) ==
    TTL_entity(get_lang_val(doc.subject_labels, lang, fallback_lang),
               TTL_claim_objects(TTL_claims_for_subject(doc, ar, fp)),
               [pending_ids |-> {}, resolved_labels |-> doc.labels])

\* The entity documents of the facts.
EntityJSON(labels, fs) == [labels |-> labels, claims |-> EncodeJSON(fs)]

EntityTTL(labels, fs) == [subject_labels |-> labels] @@ EncodeTTL(fs)

NormStart ==
    /\ all_ranks \in BOOLEAN
    /\ filter_pids = {}
    /\ facts \in SeqsUpTo(RankStatements, MaxStatements)
                   \cup SeqsUpTo(ValueStatements, MaxValueStatements)
    /\ json_out = NotRun
    /\ ttl_out = NotRun
    /\ json_shown = NoShown
    /\ ttl_shown = NoShown

\* The normalization variables when the behaviour is not about them.
NormIdle ==
    /\ all_ranks = FALSE
    /\ filter_pids = {}
    /\ facts = << >>
    /\ json_out = NotRun
    /\ ttl_out = NotRun
    /\ json_shown = NoShown
    /\ ttl_shown = NoShown

\* The statements a filtered normalization starts from.
MaxFilterStatements == 2

\* The values of filter_pids: none, a property of the entity, a property
\* the entity has no statement of.
Filters == {{}, {"P31"}, {"P569"}}

\* The start of a normalization with a property filter.
FilterStart ==
    /\ all_ranks \in BOOLEAN
    /\ filter_pids \in Filters
    /\ facts \in SeqsUpTo(RankStatements, MaxFilterStatements)
    /\ json_out = NotRun
    /\ ttl_out = NotRun
    /\ json_shown = NoShown
    /\ ttl_shown = NoShown

\* JSONNormalizer(entity_json=...).normalize(all_ranks=all_ranks,
\* filter_pids=filter_pids)
JSONNormalize ==
    /\ json_out.status = "not run"
    /\ json_out' = JSON_normalize(EntityJSON(SubjectLabels, facts), "en", "en",
                                  all_ranks, filter_pids)
    /\ UNCHANGED <<all_ranks, filter_pids, facts, ttl_out, json_shown, ttl_shown>>
    /\ UNCHANGED notNorm

\* TTLNormalizer(ttl_text=...).normalize(all_ranks=all_ranks,
\* filter_pids=filter_pids)
TTLNormalize ==
    /\ ttl_out.status = "not run"
    /\ ttl_out' = TTL_normalize(EntityTTL(SubjectLabels, facts), "en", "en",
                                all_ranks, filter_pids)
    /\ UNCHANGED <<all_ranks, filter_pids, facts, json_out, json_shown, ttl_shown>>
    /\ UNCHANGED notNorm

\* A rendering of the JSONNormalizer entity.  The first truthiness test of
\* a claim stringifies a lazy label, which resolves everything pending.
JSONRender ==
    \E format \in Formats :
        /\ json_out.status = "returned"
        /\ json_shown.format = "None"
        /\ LET f == IF json_out.claims = << >> THEN json_out.factory
                    ELSE resolve_all(json_out.factory)
           IN  /\ json_shown' = Render(format, "old", f, json_out)
               /\ json_out' = [json_out EXCEPT
                                  !.factory = f,
                                  !.shown_lookups = IF json_out.claims = << >> THEN {}
                                                    ELSE LookupIds(json_out.factory)]
        /\ UNCHANGED <<all_ranks, filter_pids, facts, ttl_out, ttl_shown>>
        /\ UNCHANGED notNorm

\* A rendering of the TTLNormalizer entity.
TTLRender ==
    \E format \in Formats :
        /\ ttl_out.status = "returned"
        /\ ttl_shown.format = "None"
        /\ LET f == IF ttl_out.claims = << >> THEN ttl_out.factory
                    ELSE resolve_all(ttl_out.factory)
           IN  /\ ttl_shown' = Render(format, "new", f, ttl_out)
               /\ ttl_out' = [ttl_out EXCEPT
                                 !.factory = f,
                                 !.shown_lookups = IF ttl_out.claims = << >> THEN {}
                                                   ELSE LookupIds(ttl_out.factory)]
        /\ UNCHANGED <<all_ranks, filter_pids, facts, json_out, json_shown>>
        /\ UNCHANGED notNorm

NormNext == JSONNormalize \/ TTLNormalize \/ JSONRender \/ TTLRender

\* ---- properties of normalization and rendering --------------------------

\* The rank rule: every statement with all_ranks; otherwise the untagged
\* ones plus the preferred ones if the property has a preferred statement,
\* else plus the normal ones.
RuleKept(sts, ar) ==
    IF ar THEN sts
    ELSE LET any_preferred == \E i \in DOMAIN sts : sts[i].rank = "preferred"
         IN  SelectSeq(sts, LAMBDA s :
                 \/ s.rank = "None"
                 \/ s.rank = (IF any_preferred THEN "preferred" ELSE "normal"))

RankTags(xs) == [i \in DOMAIN xs |-> xs[i].rank]

\* The values of the claim object a normalize call built for a property,
\* none if it built no claim for it.
BuiltValues(out, pid) ==
    LET cs == SelectSeq(out.built, LAMBDA c : c.pid = pid)
    IN  IF cs = << >> THEN << >> ELSE cs[1].values

Outcomes == {json_out, ttl_out}

\* C1: in each normalizer the claim of a property carries exactly the rank
\* tags of the statements the rank rule keeps for that property alone, in
\* order: all of them with all_ranks, else untagged plus preferred if the
\* property has a preferred statement, else untagged plus normal; never a
\* deprecated one.
C1_RankRulePerProperty ==
    \A out \in Outcomes :
        out.status = "returned" =>
            \A pid \in PidSet(facts) :
                /\ RankTags(BuiltValues(out, pid))
                      = RankTags(RuleKept(OfPid(facts, pid), all_ranks))
                /\ ~all_ranks =>
                      \A i \in DOMAIN BuiltValues(out, pid) :
                          BuiltValues(out, pid)[i].rank # "deprecated"

\* C1 witness: without all_ranks, one property has a preferred and a normal
\* statement and keeps only the preferred one, while another property keeps
\* its normal statement, in both normalizers.
C1_Witness ==
    /\ ~all_ranks
    /\ \A out \in Outcomes : out.status = "returned"
    /\ \E p, q \in PidSet(facts) :
          /\ p # q
          /\ {"preferred", "normal"} \subseteq
                {OfPid(facts, p)[i].rank : i \in DOMAIN OfPid(facts, p)}
          /\ \A out \in Outcomes :
                /\ RankTags(BuiltValues(out, p)) = <<"preferred">>
                /\ RankTags(BuiltValues(out, q)) = <<"normal">>

\* C2: on the same statements and the same all_ranks option the claims of
\* JSONNormalizer and TTLNormalizer hold the same number of claim values
\* with the same rank tags in the same order, for every property.
C2_SameKeptRanks ==
    (json_out.status = "returned" /\ ttl_out.status = "returned") =>
        \A pid \in PidSet(facts) :
            RankTags(BuiltValues(json_out, pid)) = RankTags(BuiltValues(ttl_out, pid))

\* C2 witness: both normalizers have returned, and for a property with
\* three statements of three different ranks both kept the same single one.
C2_Witness ==
    /\ json_out.status = "returned"
    /\ ttl_out.status = "returned"
    /\ \E pid \in PidSet(facts) :
          /\ Len(OfPid(facts, pid)) = 3
          /\ Cardinality({OfPid(facts, pid)[i].rank : i \in 1..3}) = 3
          /\ Len(BuiltValues(json_out, pid)) = 1
          /\ RankTags(BuiltValues(ttl_out, pid)) = RankTags(BuiltValues(json_out, pid))

\* xs can be obtained from ys by deleting elements.
RECURSIVE IsSubsequence(_, _)
IsSubsequence(xs, ys) ==
    IF xs = << >> THEN TRUE
    ELSE IF ys = << >> THEN FALSE
    ELSE IF Head(xs) = Head(ys) THEN IsSubsequence(Tail(xs), Tail(ys))
    ELSE IsSubsequence(xs, Tail(ys))

\* The statements of a property that JSONNormalizer keeps.
JSONKept(fs, pid, ar) == JSON_filter_by_rank(EncodeJSON(fs).claims[pid], ar)

\* The statement dicts of a property that TTLNormalizer keeps.
TTLKept(fs, pid, ar) ==
    TTL_claims_for_subject(EntityTTL(SubjectLabels, fs), ar, {}).claims[pid]

\* C24: for every property the statements kept with all_ranks are a
\* superset, in order, of those kept without it, so the number of values
\* never decreases; filtering the kept statements again without all_ranks
\* returns them unchanged; the claim a normalizer built has one value per
\* kept statement.
C24_AllRanksSupersetIdempotent ==
    \A pid \in PidSet(facts) :
        /\ IsSubsequence(JSONKept(facts, pid, FALSE), JSONKept(facts, pid, TRUE))
        /\ IsSubsequence(TTLKept(facts, pid, FALSE), TTLKept(facts, pid, TRUE))
        /\ JSON_filter_by_rank(JSONKept(facts, pid, FALSE), FALSE) = JSONKept(facts, pid, FALSE)
        /\ TTL_keep(TTLKept(facts, pid, FALSE)) = TTLKept(facts, pid, FALSE)
        /\ json_out.status = "returned" =>
              Len(BuiltValues(json_out, pid)) = Len(JSONKept(facts, pid, all_ranks))
        /\ ttl_out.status = "returned" =>
              Len(BuiltValues(ttl_out, pid)) = Len(TTLKept(facts, pid, all_ranks))

\* C24 witness: both normalizers have run without all_ranks on a property
\* with a preferred, a normal and a deprecated statement and kept one of
\* the three.
C24_Witness ==
    /\ ~all_ranks
    /\ json_out.status = "returned" /\ ttl_out.status = "returned"
    /\ \E pid \in PidSet(facts) :
          /\ {OfPid(facts, pid)[i].rank : i \in DOMAIN OfPid(facts, pid)}
                = {"preferred", "normal", "deprecated"}
          /\ Len(JSONKept(facts, pid, TRUE)) = 3
          /\ Len(BuiltValues(json_out, pid)) = 1
          /\ Len(BuiltValues(ttl_out, pid)) = 1

\* The ids the claims of an outcome registered with the label factory.
RegisteredIds(out) == UNION {CreatedIds(out.claims[i]) : i \in DOMAIN out.claims}

\* The label the Turtle document states for an id.
DocLabel(id) == get_lang_val(DocLabels(id), "en", "en")

\* The property ids of a sequence of claims.
ClaimPids(claims) == {claims[i].pid : i \in DOMAIN claims}

\* C23: with a non-empty property filter every top-level claim of the
\* entity is of a property in the filter, in both normalizers and in every
\* rendering, so a filter that matches nothing leaves no claims; without a
\* filter the result is that of a filter naming every property.
C23_FilterKeepsOnlyListed ==
    /\ \A out \in {json_out, ttl_out} :
          out.status = "returned" =>
              (filter_pids # {} => ClaimPids(out.claims) \subseteq filter_pids)
    /\ \A shown \in {json_shown, ttl_shown} :
          filter_pids # {} => ClaimPids(shown.claims) \subseteq filter_pids
    /\ (filter_pids = {} /\ json_out.status = "returned") =>
          json_out.claims
              = JSON_normalize(EntityJSON(SubjectLabels, facts), "en", "en",
                               all_ranks, {"P31", "P279"}).claims
    /\ (filter_pids = {} /\ ttl_out.status = "returned") =>
          ttl_out.claims
              = TTL_normalize(EntityTTL(SubjectLabels, facts), "en", "en",
                              all_ranks, {"P31", "P279"}).claims

\* C23 witness: the entity has statements of P31 and of P279, the filter
\* is {P31}, and both normalizers returned P31 alone and rendered it.
C23_Witness ==
    /\ filter_pids = {"P31"}
    /\ PidSet(facts) = {"P31", "P279"}
    /\ ClaimPids(json_out.claims) = {"P31"}
    /\ ClaimPids(ttl_out.claims) = {"P31"}
    /\ ClaimPids(json_shown.claims) = {"P31"}
    /\ ClaimPids(ttl_shown.claims) = {"P31"}

\* The label the rendering ends with for an Entity whose label is empty:
\* '<missing>' in prose, null in the structured rendering.
MissingMark(format) == IF format = "json" THEN "None" ELSE "<missing>"

\* C22: when the resolver has no label for an identifier, every Entity
\* TTLNormalizer's entity renders with it, the subject as well as an
\* entity-valued claim value with a lazy label, shows '<missing>' in the
\* prose rendering and a null label in the structured rendering.
C22_UnresolvedLabelIsMissing ==
    ttl_shown.format \in {"json", "text"} =>
        /\ ttl_out.label = "" => ttl_shown.label = MissingMark(ttl_shown.format)
        /\ \A i \in DOMAIN ttl_shown.claims :
              \A j \in DOMAIN ttl_shown.claims[i].values :
                  LET v == ttl_shown.claims[i].values[j]
                  IN  (v.kind = "entity" /\ get_label(ttl_out.factory, v.id) = "")
                          => v.text = MissingMark(ttl_shown.format)

\* C25: when the TTLNormalizer entity is rendered, the ids passed to the
\* external bulk lookup are the registered ids without a label in the
\* Turtle document; an id with a label in the document is never looked
\* up, and the label shown for it is the one of the document.
C25_DocumentLabelsFirst ==
    (ttl_shown.format # "None") =>
        /\ ttl_out.lookups = << >>
        /\ ttl_out.shown_lookups \cap DocLabelIds = {}
        /\ ttl_out.shown_lookups = RegisteredIds(ttl_out) \ DocLabelIds
        /\ \A i \in DOMAIN ttl_shown.claims :
              /\ ttl_shown.claims[i].pid \in DocLabelIds =>
                    ttl_shown.claims[i].property_label = DocLabel(ttl_shown.claims[i].pid)
              /\ \A j \in DOMAIN ttl_shown.claims[i].values :
                    LET v == ttl_shown.claims[i].values[j]
                    IN  (v.kind = "entity" /\ v.id \in DocLabelIds) => v.text = DocLabel(v.id)

\* C25 witness: the rendered entity shows for Q7 the label of the
\* document, which differs from the one in the store, and another id
\* without label in the document was looked up.
C25_Witness ==
    /\ ttl_shown.format # "None"
    /\ ttl_out.shown_lookups # {}
    /\ \E i \in DOMAIN ttl_shown.claims : \E j \in DOMAIN ttl_shown.claims[i].values :
          /\ ttl_shown.claims[i].values[j].id = "Q7"
          /\ ttl_shown.claims[i].values[j].text = "label in the document"
          /\ ttl_shown.claims[i].values[j].text # StoreLabel("Q7")

\* C4: whatever time value the formatter fails on, normalize returns in
\* both normalizers (no exception escapes), and every kept statement still
\* has its claim value in its claim.
C4_FormatterFailureDropsOneValue ==
    \A out \in Outcomes :
        /\ out.status # "raised"
        /\ out.status = "returned" =>
              \A pid \in PidSet(facts) :
                  Len(BuiltValues(out, pid)) = Len(RuleKept(OfPid(facts, pid), all_ranks))

\* C5: no call to the bulk label lookup is made while normalize runs, in
\* either normalizer.
C5_NoLookupDuringNormalize ==
    \A out \in Outcomes : out.lookups = << >>

Shown == {json_shown, ttl_shown}

\* C9: an entity value whose label is empty is falsy and no rendering
\* shows a claim value that holds such an entity.
C9_EmptyLabelEntityOmitted ==
    /\ \A out \in Outcomes : \A i \in DOMAIN out.claims :
          \A j \in DOMAIN out.claims[i].values :
              LET v == out.claims[i].values[j].value
                  f == resolve_all(out.factory)
              IN  (v.type = "entity" /\ get_label(f, v.id) = "") => ~WikidataEntity_bool(f, v)
    /\ \A s \in Shown : \A i \in DOMAIN s.claims :
          \A j \in DOMAIN s.claims[i].values :
              s.claims[i].values[j].kind = "entity" => s.claims[i].values[j].text # ""

\* The kept statements of a property that have a main value.
WithMainValue(pid) ==
    SelectSeq(RuleKept(OfPid(facts, pid), all_ranks), LAMBDA s : s.mv.kind # "novalue")

\* C10: a claim value without a value is falsy, a claim holding only such
\* values is falsy, no rendering shows either of them, and statements
\* without a main value make neither normalizer raise.
C10_SentinelNeverRendered ==
    /\ \A out \in Outcomes : \A i \in DOMAIN out.built :
          LET c == out.built[i]
              f == resolve_all(out.factory)
          IN  \A module \in {"old", "new"} :
                /\ \A j \in DOMAIN c.values :
                      c.values[j].value.type = "None"
                          => ~WikidataClaimValue_bool(module, f, c.values[j])
                /\ (\A j \in DOMAIN c.values : c.values[j].value.type = "None")
                      => ~WikidataClaim_bool(module, f, c)
    /\ \A s \in Shown : \A i \in DOMAIN s.claims :
          /\ WithMainValue(s.claims[i].pid) # << >>
          /\ Len(s.claims[i].values) <= Len(WithMainValue(s.claims[i].pid))
          /\ \A j \in DOMAIN s.claims[i].values : s.claims[i].values[j].kind # "None"
    /\ (\A i \in DOMAIN facts : facts[i].mv.kind # "time")
          => \A out \in Outcomes : out.status # "raised"

\* C10 witness: a property has only a statement without main value, the
\* TTLNormalizer entity holds its claim, and both entities have been
\* rendered with another property shown and that one absent.
C10_Witness ==
    \E pid \in PidSet(facts) :
        /\ WithMainValue(pid) = << >>
        /\ \E i \in DOMAIN ttl_out.claims : ttl_out.claims[i].pid = pid
        /\ \A s \in Shown :
              /\ s.claims # << >>
              /\ \A i \in DOMAIN s.claims : s.claims[i].pid # pid

(***************************************************************************)
(* The request handler                                                     *)
(***************************************************************************)

\* The handler's outcome: the status of an HTTPException (404, 500), or
\* 200 with the dict it returns.  Status 0: no call yet.
NoResponse == [status |-> 0, data |-> << >>]

\* The request variables when the behaviour is not about them.
RequestIdle ==
    /\ rq_payload = << >>
    /\ rq_lang = "en"
    /\ rq_fallback = "en"
    /\ rq_response = NoResponse
    /\ rq_ids = {}
    /\ rq_format = "json"

\* The ids of a request for several ids, `id=Q42,Q64`.
RequestIds == {"Q42", "Q64"}

\* The id of a request for one id, `id=Q42`.
SingleId == "Q42"

\* What Wikidata holds about an entity: its labels and its statements.
RequestData ==
    { <<labels, fs>> :
        labels \in LabelMaps,
        fs \in {<< >>, <<Statement("P31", "normal", ItemValue("Q5"))>>} }

\* The entity documents get_wikidata_json_by_ids can return for one id.
RequestEntities == { EntityJSON(d[1], d[2]) : d \in RequestData }

\* The Turtle document get_wikidata_ttl_by_id returns for the entity whose
\* JSON document is e.
TTLOf(e) ==
    LET d == CHOOSE d \in RequestData : EntityJSON(d[1], d[2]) = e
    IN  EntityTTL(d[1], d[2])

\* The null result of an id in the dict the handler returns.
NullResult == NoShown

\* WikidataEntity.__bool__ of the subject (old module): its label is the
\* str that get_lang_val returned.
Subject_bool(e) == e.label # ""

\* The loop over entities.items(): None for an entity that is None or
\* falsy, else its rendering.
ReturnData(e, format) ==
    IF e.status = "not run" \/ ~Subject_bool(e) THEN NullResult
    ELSE Render(format, "old",
                IF e.claims = << >> THEN e.factory ELSE resolve_all(e.factory), e)

\* The response for the normalized entities (NotRun: no normalizer).
Respond(entities, format) ==
    IF \E qid \in RequestIds : entities[qid].status = "raised"
    THEN [status |-> 500, data |-> << >>]
    ELSE [status |-> 200,
          data |-> [qid \in RequestIds |-> ReturnData(entities[qid], format)]]

\* main.get_textified_wd for more than one id; entity_data is what
\* utils.get_wikidata_json_by_ids(qids) returned.
get_textified_wd(entity_data, format, lang, fallback_lang) ==
    IF DOMAIN entity_data = {}
    THEN [status |-> 404, data |-> << >>]
    ELSE Respond([qid \in RequestIds |->
                    IF qid \in DOMAIN entity_data
                    THEN JSON_normalize(entity_data[qid], lang, fallback_lang, FALSE, {})
                    ELSE NotRun],
                 format)

\* str(entity) of the entity TTLNormalizer returns: the class of
\* Textifier/WikidataTextifier.py defines no __str__, so this is the repr
\* the dataclass generates, which lists the fields as they are.
New_Entity_str(e) == [format |-> "repr", label |-> e.label, claims |-> e.claims]

\* The branches of the loop over entities.items() for an entity of the
\* new module: str(entity), entity.to_triplet() or entity.to_json().
ReturnDataNew(e, format) ==
    IF ~Subject_bool(e) THEN NullResult
    ELSE IF format = "text" THEN New_Entity_str(e)
    ELSE Render(format, "new",
                IF e.claims = << >> THEN e.factory ELSE resolve_all(e.factory), e)

\* main.get_textified_wd for one id; found tells whether
\* utils.get_wikidata_ttl_by_id returned a document, ttl_text is that
\* document.
get_textified_wd_single(found, ttl_text, format, lang, fallback_lang) ==
    IF ~found THEN [status |-> 404, data |-> << >>]
    ELSE IF TTL_normalize(ttl_text, lang, fallback_lang, FALSE, {}).status = "raised"
    THEN [status |-> 500, data |-> << >>]
    ELSE [status |-> 200,
          data |-> [qid \in {SingleId} |->
                      ReturnDataNew(TTL_normalize(ttl_text, lang, fallback_lang, FALSE, {}), format)]]

RequestStart ==
    /\ rq_payload \in UNION { [S -> RequestEntities] : S \in SUBSET RequestIds }
    /\ rq_lang = "en"
    /\ rq_fallback \in {"en", "de"}
    /\ rq_response = NoResponse
    /\ rq_ids \in {{SingleId}, RequestIds}
    /\ rq_format \in Formats

\* GET /?id=Q42,Q64&format=...&lang=...&fallback_lang=...
GetTextifiedWd ==
    /\ rq_ids = RequestIds
    /\ rq_response = NoResponse
    /\ rq_response' = get_textified_wd(rq_payload, rq_format, rq_lang, rq_fallback)
    /\ UNCHANGED <<rq_payload, rq_lang, rq_fallback, rq_ids, rq_format>>
    /\ UNCHANGED notRequest

\* GET /?id=Q42&format=...&lang=...&fallback_lang=...
GetTextifiedWdSingle ==
    /\ rq_ids = {SingleId}
    /\ rq_response = NoResponse
    /\ rq_response' =
          IF SingleId \in DOMAIN rq_payload
          THEN get_textified_wd_single(TRUE, TTLOf(rq_payload[SingleId]),
                                       rq_format, rq_lang, rq_fallback)
          ELSE get_textified_wd_single(FALSE, EntityTTL(<< >>, << >>),
                                       rq_format, rq_lang, rq_fallback)
    /\ UNCHANGED <<rq_payload, rq_lang, rq_fallback, rq_ids, rq_format>>
    /\ UNCHANGED notRequest

RequestNext == GetTextifiedWd \/ GetTextifiedWdSingle

\* C8: in a request for several ids of which the payload holds at least
\* one, the handler answers with one result per id, and the result of an
\* id is the null marker exactly when the id is absent from the payload.
C8_NullIffAbsentFromPayload ==
    (rq_response # NoResponse /\ rq_ids = RequestIds /\ DOMAIN rq_payload # {}) =>
        /\ rq_response.status = 200
        /\ \A qid \in RequestIds :
              (rq_response.data[qid] = NullResult) <=> (qid \notin DOMAIN rq_payload)

\* The prose rendering of an entity document: WikidataEntity.__str__ of
\* the entity JSONNormalizer builds from it.
ProseOf(entity_json) ==
    ReturnData(JSON_normalize(entity_json, rq_lang, rq_fallback, FALSE, {}), "text")

\* C30: for format 'text' every result that is not null is the prose
\* rendering of the entity, whether one id was requested (TTLNormalizer)
\* or several (JSONNormalizer), and the same entity data gives the same
\* prose on either path.
C30_TextIsProseOnBothPaths ==
    (rq_response # NoResponse /\ rq_response.status = 200 /\ rq_format = "text") =>
        \A qid \in DOMAIN rq_response.data :
            rq_response.data[qid] # NullResult =>
                /\ rq_response.data[qid].format = "text"
                /\ rq_response.data[qid] = ProseOf(rq_payload[qid])

(***************************************************************************)
(* One statement through both value builders                               *)
(*                                                                         *)
(* A single statement is encoded as JSON and as Turtle; each normalizer    *)
(* builds the claim of its property from its own encoding.                 *)
(***************************************************************************)

\* The coordinates the behaviours draw from (units of 1/10000 degree).
Latitudes == {515074, -338688, 0}

Longitudes == {-1278, 1512093, 0}

CoordSamples ==
    { CoordOf(TRUE, lat, TRUE, lon) : lat \in Latitudes, lon \in Longitudes }
    \cup { CoordOf(FALSE, 0, TRUE, lon) : lon \in Longitudes }
    \cup { CoordOf(TRUE, lat, FALSE, 0) : lat \in Latitudes }
    \cup { NoCoord }

\* References to entities, each under a property of the matching datatype:
\* items under P31, properties under P1687, a lexeme under P6254.
ReferenceSamples ==
    { <<"P31", "Q5">>, <<"P31", "Q9">>, <<"P31", "Q42">>,
      <<"P1687", "P569">>, <<"P1687", "P31">>, <<"P6254", "L7">> }

\* Quantities with and without amount; without unit, with the unit metre
\* and with a unit the label store does not know.
QuantitySamples ==
    { QuantityOf(has_amount, amount, unit) :
        has_amount \in BOOLEAN, amount \in {"+5", "-3.2"},
        unit \in {"None", "1", "Q11573", "Q404"} }

\* The statements the behaviours draw from.
ValueFacts ==
    { Statement(r[1], rank, ItemValue(r[2])) :
        r \in ReferenceSamples, rank \in {"normal", "preferred"} }
    \cup { Statement("P2048", "normal", QuantityValue(q)) : q \in QuantitySamples }
    \cup { Statement("P625", rank, CoordValue(c)) :
             c \in CoordSamples, rank \in {"normal", "preferred"} }
    \cup { Statement("P569", "normal", TimeValue(t)) : t \in TimeSamples }
    \cup { Statement(pid, "normal", NoValue) : pid \in {"P31", "P625", "P1687"} }

\* No claim built yet.
NotBuilt == [exc |-> "NotBuilt", claim |-> WikidataClaim("", "", << >>)]

\* No rendering yet.
NotShown == [rendered |-> FALSE]

ValueStart ==
    /\ vo_fact \in ValueFacts
    /\ vo_json = NotBuilt
    /\ vo_ttl = NotBuilt
    /\ vo_shown = NotShown

\* The value variables when the behaviour is not about them.
ValueIdle ==
    /\ vo_fact = Statement("", "None", NoValue)
    /\ vo_json = NotBuilt
    /\ vo_ttl = NotBuilt
    /\ vo_shown = NotShown

\* JSONNormalizer._build_claim on the statements of the fact's property
JSONBuildClaim ==
    /\ vo_json = NotBuilt
    /\ vo_json' = JSON_build_claim(vo_fact.pid,
                                   EncodeJSON(<<vo_fact>>).claims[vo_fact.pid], FALSE)
    /\ UNCHANGED <<vo_fact, vo_ttl, vo_shown>>
    /\ UNCHANGED notValue

\* TTLNormalizer._claims_for_subject, then _build_claim_object on the
\* statements of the fact's property
TTLBuildClaim ==
    /\ vo_ttl = NotBuilt
    /\ vo_ttl' = TTL_build_claim_object(
                     vo_fact.pid,
                     TTL_claims_for_subject(EncodeTTL(<<vo_fact>>), FALSE, {}).claims[vo_fact.pid])
    /\ UNCHANGED <<vo_fact, vo_json, vo_shown>>
    /\ UNCHANGED notValue

\* str(value) of a claim value, as its words, and value.to_json()
ShownValue(module, f, cv) ==
    IF ~WikidataClaimValue_bool(module, f, cv)
    THEN [text |-> << >>, struct |-> [shape |-> "None", words |-> << >>, unit_QID |-> ""]]
    ELSE IF cv.value.type = "quantity"
    THEN [text |-> WikidataQuantity_str(f, cv.value),
          struct |-> WikidataQuantity_to_json(f, cv.value)]
    ELSE [text |-> <<ShownText(f, cv.value)>>,
          struct |-> [shape |-> cv.value.type, words |-> <<ShownText(f, cv.value)>>,
                      unit_QID |-> ""]]

\* The factory of a build after its labels were resolved.
ResolvedFor(claim) == resolve_all(CreateAll(NewFactory, CreatedIds(claim)))

\* to_text() and to_json() of the value both builders made
RenderValue ==
    /\ vo_json # NotBuilt /\ vo_ttl # NotBuilt
    /\ vo_json.exc = "None" /\ vo_ttl.exc = "None"
    /\ vo_shown = NotShown
    /\ vo_shown' = [rendered |-> TRUE,
                    json |-> ShownValue("old", ResolvedFor(vo_json.claim),
                                        vo_json.claim.values[1]),
                    ttl |-> ShownValue("new", ResolvedFor(vo_ttl.claim),
                                       vo_ttl.claim.values[1])]
    /\ UNCHANGED <<vo_fact, vo_json, vo_ttl>>
    /\ UNCHANGED notValue

ValueNext == JSONBuildClaim \/ TTLBuildClaim \/ RenderValue

\* The value object a builder made for the statement.
BuiltValue(out) == out.claim.values[1].value

\* Both builders have run on the statement.
BothBuilt == vo_json # NotBuilt /\ vo_ttl # NotBuilt

\* C11: for a statement that refers to another entity, an id that starts
\* with Q or P becomes an Entity value carrying that id in both
\* normalizers, any other id becomes a Text value in both, and so both
\* normalizers produce the same kind of value for the same id.
C11_ReferenceKind ==
    (BothBuilt /\ vo_fact.mv.kind = "item") =>
        /\ vo_json.exc = "None" /\ vo_ttl.exc = "None"
        /\ \A out \in {vo_json, vo_ttl} :
              IF IdLetter(vo_fact.mv.id) \in {"Q", "P"}
              THEN BuiltValue(out) = EntityValue(vo_fact.mv.id)
              ELSE BuiltValue(out).type = "text"
        /\ BuiltValue(vo_json).type = BuiltValue(vo_ttl).type

\* The label the store resolves for a unit id.
UnitLabel(id) == get_label(resolve_all(create(NewFactory, id)), id)

\* C21: a quantity whose unit is "1" or absent is rendered as the bare
\* amount in the prose and in the structured output of both normalizers;
\* with any other unit both show the string "amount unit-label".
C21_QuantityRendering ==
    (vo_shown # NotShown /\ vo_fact.mv.kind = "quantity" /\ vo_fact.mv.quantity.has_amount) =>
        \A shown \in {vo_shown.json, vo_shown.ttl} :
            LET q == vo_fact.mv.quantity
                words == IF q.unit \in {"1", "None"} THEN <<q.amount>>
                         ELSE <<q.amount, UnitLabel(q.unit)>>
            IN  /\ shown.text = words
                /\ shown.struct = [shape |-> "string", words |-> words, unit_QID |-> ""]

\* C12: for a coordinate with both latitude and longitude present, each
\* normalizer produces a Coordinate value that holds that latitude and
\* longitude and whose display string is the spatial formatter's output
\* for that pair; with a number missing the value is dropped.
C12_CoordinateKept ==
    (BothBuilt /\ vo_fact.mv.kind = "coord") =>
        \A out \in {vo_json, vo_ttl} :
            /\ out.exc = "None"
            /\ IF vo_fact.mv.coord.has_lat /\ vo_fact.mv.coord.has_lon
               THEN BuiltValue(out) =
                      WikidataCoordinates(
                          vo_fact.mv.coord.lat, vo_fact.mv.coord.lon,
                          wikidata_geolocation_to_text(PyFloat(vo_fact.mv.coord.lat),
                                                       PyFloat(vo_fact.mv.coord.lon)))
               ELSE BuiltValue(out) = NoneValue

(***************************************************************************)
(* The temporal formatter on its own                                       *)
(*                                                                         *)
(* One time value is passed to utils.wikidata_time_to_text.  Its time of   *)
(* day is 00:00:00 and its timezone 0.                                     *)
(***************************************************************************)

\* Bound: the years -MaxBucketYear..MaxBucketYear are bucketed.
MaxBucketYear == 1100

\* Bound: before and after range over 0..MaxUncertainty.
MaxUncertainty == 2

Precisions == 0..14

SignOf(y) == IF y < 0 THEN "-" ELSE "+"

\* Years at a precision of a decade, a century or a millennium, written
\* as +YYYY-00-00T00:00:00Z, with the uncertainty widths.
BucketTimes ==
    { TimeOf(SignOf(y), Abs(y), 0, 0, precision, "Q1985727", before, after) :
        y \in (-MaxBucketYear)..MaxBucketYear, precision \in 6..8,
        before \in 0..MaxUncertainty, after \in 0..MaxUncertainty }

\* Deep-time years: e5 * 100000 + rest years before or after year 0.
DeepTimes ==
    { [TimeOf(sign, rest, 0, 0, precision, "Q1985727", 0, 0) EXCEPT !.year_e5 = e5] :
        sign \in {"+", "-"}, precision \in 0..5, rest \in {0, 1, 13000},
        e5 \in {0, 1, 2, 3, 10, 25, 10000, 138000, 1000000} }

\* Calendar dates at every precision, in the Gregorian and in the Julian
\* calendar; 1700-02-29 exists in the Julian calendar only.
PointTimes ==
    { TimeOf(sign, ymd[1], ymd[2], ymd[3], precision, calendar, before, after) :
        sign \in {"+", "-"},
        ymd \in { <<1879, 3, 14>>, <<1700, 2, 18>>, <<1700, 2, 29>>, <<44, 3, 15>>,
                  <<1582, 10, 5>>, <<12345, 1, 1>> },
        precision \in Precisions,
        calendar \in {"Q1985727", "Q1985786"},
        before \in {0, 1}, after \in {0, 1} }

NotCalled == [exc |-> "NotCalled", text |-> "", label |-> NoLabel]

TimeStart ==
    /\ tm_value \in BucketTimes \cup DeepTimes \cup PointTimes
    /\ tm_store \in {TemporalLabels, {}}
    /\ tm_label = NotCalled

\* The time variables when the behaviour is not about them.
TimeIdle ==
    /\ tm_value = NoTime
    /\ tm_store = {}
    /\ tm_label = NotCalled

\* utils.wikidata_time_to_text(value, lang)
FormatTime ==
    /\ tm_label = NotCalled
    /\ tm_label' = wikidata_time_to_text(JSONTime(tm_value), tm_store)
    /\ UNCHANGED <<tm_value, tm_store>>
    /\ UNCHANGED notTime

TimeNext == FormatTime

\* The formatter has returned a label for the value.
Labelled == tm_label # NotCalled /\ tm_label.exc = "None"

\* C13: for every precision in 0..14 the label follows the band of the
\* precision: 0..5 deep time, 6..8 a range of years, 9..11 a year, month
\* or day, 12..14 a date with the time of day; precision 0 is deep time.
C13_DispatchByBand ==
    Labelled =>
        CASE tm_value.precision \in 0..5 -> tm_label.label.form = "geologic"
          [] tm_value.precision \in 6..8 -> tm_label.label.form = "years"
          [] tm_value.precision \in 9..11 ->
               /\ tm_label.label.form \in {"point", "points"}
               /\ tm_label.label.pattern \in {"y", "MMMM y", "long"}
          [] OTHER ->
               /\ tm_label.label.form \in {"point", "points"}
               /\ tm_label.label.pattern \in {"long HH", "long HH:mm", "long HH:mm:ss"}

\* The absolute year of the time value.
AbsYearOf(t) == AbsYear(JSONTime(t).time)

\* The count and unit the deep-time rule selects for an absolute year
\* e5 * 100000 + rest (1e9 = 10000 * 1e5, 1e6 = 10 * 1e5).
DeepTimeRule(n) ==
    CASE n.rest = 0 /\ n.e5 % 10000 = 0 -> [number |-> Wide(0, n.e5 \div 10000), unit |-> "billion_years"]
      [] n.rest = 0 /\ n.e5 % 10000 # 0 /\ n.e5 % 10 = 0 ->
           [number |-> Wide(0, n.e5 \div 10), unit |-> "million_years"]
      [] n.rest = 0 /\ n.e5 % 10 # 0 /\ n.e5 # 1 ->
           [number |-> Wide(0, n.e5), unit |-> "hundred_thousand_years"]
      [] OTHER -> [number |-> n, unit |-> "years"]

\* C14: with the composite unit labels available, a value of precision
\* 0..5 is rendered with the unit its absolute year selects: billions when
\* divisible by 1e9 (100 for the year -100000000000), else millions when
\* divisible by 1e6, else hundred-thousands when divisible by 1e5 and not
\* 100000 itself, else the plain count of years; always with the era.
C14_DeepTimeUnit ==
    (Labelled /\ tm_value.precision \in 0..5 /\ tm_store = TemporalLabels) =>
        /\ tm_label.label.form = "geologic"
        /\ tm_label.label.number = DeepTimeRule(AbsYearOf(tm_value)).number
        /\ tm_label.label.unit = DeepTimeRule(AbsYearOf(tm_value)).unit
        /\ tm_label.label.era = "BC"

\* The astronomical year an instant of a label stands for.
AstronomicalOf(inst) == IF inst.era = "BC" THEN 1 - inst.year ELSE inst.year

\* The astronomical year of the time value.
YearOf(t) == AstronomicalYear(JSONTime(t).time)

\* The years from the start to the end of a label's range, ends included.
SpanOf(label) == AstronomicalOf(label.end) - AstronomicalOf(label.start) + 1

\* C15: at precision 6, 7 or 8 without before / after the range has
\* exactly 1000, 100 or 10 years and contains the year; each endpoint is
\* written in the human convention (a year <= 0 as 1 - year BC, a year
\* >= 1 unchanged) and none is written as year 0.
C15_BucketRange ==
    (Labelled /\ tm_value.precision \in 6..8 /\ tm_value.before = 0 /\ tm_value.after = 0) =>
        LET ab == bucket_bounds_astrological(YearOf(tm_value), tm_value.precision)
        IN  /\ ab[2] - ab[1] + 1 = BucketWidth(tm_value.precision)
            /\ ab[1] <= YearOf(tm_value) /\ YearOf(tm_value) <= ab[2]
            /\ tm_label.label.form = "years"
            /\ AstronomicalOf(tm_label.label.start) = ab[1]
            /\ AstronomicalOf(tm_label.label.end) = ab[2]
            /\ \A e \in {<<ab[1], tm_label.label.start>>, <<ab[2], tm_label.label.end>>} :
                  /\ e[2].year # 0
                  /\ e[1] <= 0 => e[2] = Instant(1 - e[1], "BC", 0, 0)
                  /\ e[1] >= 1 => e[2] = Instant(e[1], "None", 0, 0)

\* C15 witness: a century that starts before year 1 and ends in year 1 has
\* been rendered.
C15_Witness ==
    /\ Labelled
    /\ tm_value.precision = 7 /\ tm_value.before = 0 /\ tm_value.after = 0
    /\ YearOf(tm_value) <= 0
    /\ tm_label.label.start.era = "BC"
    /\ tm_label.label.end = Instant(1, "None", 0, 0)

\* C16: at precision 6..8 with before = b and after = a, not both zero,
\* the rendered range spans (1 + a + b) bucket widths and contains the
\* bucket of the year, for positive and for non-positive years.
C16_WidenedRange ==
    (Labelled /\ tm_value.precision \in 6..8 /\ (tm_value.before # 0 \/ tm_value.after # 0)) =>
        LET ab == bucket_bounds_astrological(YearOf(tm_value), tm_value.precision)
        IN  /\ tm_label.label.form = "years"
            /\ SpanOf(tm_label.label) =
                 (1 + tm_value.after + tm_value.before) * BucketWidth(tm_value.precision)
            /\ AstronomicalOf(tm_label.label.start) <= ab[1]
            /\ ab[2] <= AstronomicalOf(tm_label.label.end)

\* C16 witness: a decade of a non-positive year has been rendered with
\* both widths set and spans four decades.
C16_Witness ==
    /\ Labelled
    /\ tm_value.precision = 8 /\ tm_value.before = 2 /\ tm_value.after = 1
    /\ YearOf(tm_value) <= 0
    /\ SpanOf(tm_label.label) = 40

\* The day number of a date of the Julian calendar, day 1 being 0001-01-01
\* of that calendar.
JulianOrdinal(y, m, d) ==
    LET before_month == <<0, 31, 59, 90, 120, 151, 181, 212, 243, 273, 304, 334>>
    IN  365 * (y - 1) + ((y - 1) \div 4) + before_month[m]
          + (IF m > 2 /\ y % 4 = 0 THEN 1 ELSE 0) + d

\* The proleptic Gregorian date of a Julian date: 0001-01-01 Gregorian is
\* 0001-01-03 Julian.
JulianToGregorian(y, m, d) == FromOrdinal(JulianOrdinal(y, m, d) - 2)

\* C17: a day of the Julian calendar in a positive year of at most four
\* digits is shown as its proleptic Gregorian date.
C17_JulianConverted ==
    (Labelled /\ tm_value.calendar = "Q1985786" /\ tm_value.sign = "+"
       /\ tm_value.year \in 1..9999 /\ tm_value.precision = 11
       /\ tm_value.before = 0 /\ tm_value.after = 0) =>
        tm_label.label.start = JulianToGregorian(tm_value.year, tm_value.month, tm_value.day)

\* The astronomical years a label's range runs from and to.
RangeOf(label) == <<AstronomicalOf(label.start), AstronomicalOf(label.end)>>

\* Two ranges of years share no year.
Disjoint(r, s) == r[2] < s[1] \/ s[2] < r[1]

\* C27: at precision 6..8 without before / after the range of a year <= 0
\* has both bounds <= 0 and the range of a year >= 1 has both bounds >= 1;
\* the buckets of two years at the same precision are identical or
\* disjoint.
C27_BucketWithinEra ==
    (Labelled /\ tm_value.precision \in 6..8 /\ tm_value.before = 0 /\ tm_value.after = 0) =>
        /\ YearOf(tm_value) <= 0 => (RangeOf(tm_label.label)[1] <= 0 /\ RangeOf(tm_label.label)[2] <= 0)
        /\ YearOf(tm_value) >= 1 => (RangeOf(tm_label.label)[1] >= 1 /\ RangeOf(tm_label.label)[2] >= 1)
        /\ \A y \in (-MaxBucketYear)..MaxBucketYear :
              \/ bucket_bounds_astrological(y, tm_value.precision) = RangeOf(tm_label.label)
              \/ Disjoint(bucket_bounds_astrological(y, tm_value.precision), RangeOf(tm_label.label))

\* The label of the same value without its uncertainty widths.
PlainLabel(t, store) ==
    wikidata_time_to_text(JSONTime([t EXCEPT !.before = 0, !.after = 0]), store).label

\* The bounds of a label that differ from those of the plain label.
MovedSides(label, plain) ==
    (IF label.start # plain.start THEN {"earlier"} ELSE {})
    \cup (IF label.end # plain.end THEN {"later"} ELSE {})

\* A year of the common era at the precision of a year, with the same
\* uncertainty widths as t.
ReferencePoint(t) == TimeOf("+", 1879, 3, 14, 9, "Q1985727", t.before, t.after)

\* C28: with one of before / after set, the bound it moves is on the same
\* chronological side for a non-positive year as for a positive one at
\* precision 6..8, the side it moves for a year at precision 9.
C28_SameSideEveryEra ==
    (Labelled /\ tm_value.precision \in 6..11
       /\ (tm_value.before = 0) # (tm_value.after = 0)) =>
        MovedSides(tm_label.label, PlainLabel(tm_value, tm_store)) =
            MovedSides(wikidata_time_to_text(JSONTime(ReferencePoint(tm_value)), tm_store).label,
                       PlainLabel(ReferencePoint(tm_value), tm_store))

\* C29: at precision 9..14 the label keeps the sign and the magnitude of
\* the year: a year <= 0 is written as 1 - year with the BC era, a year
\* >= 1 as itself, also above 9999.
C29_PointKeepsYear ==
    (Labelled /\ tm_value.precision \in 9..14 /\ tm_value.before = 0 /\ tm_value.after = 0) =>
        /\ AstronomicalOf(tm_label.label.start) = YearOf(tm_value)
        /\ (tm_label.label.start.era = "BC") <=> (YearOf(tm_value) <= 0)

(***************************************************************************)
(* The spatial formatter on its own                                        *)
(***************************************************************************)

\* The coordinates passed to the formatter, in units of 1/10000 degree.
GeoLatitudes == {515074, -338688, 0, -1, 900000, -900000, 407128, -225500}

GeoLongitudes == {-1278, 1512093, 0, 1, 1800000, -1800000, -740060, 1394500}

NoGeo == [exc |-> "NotCalled", lat |-> GeoPart(0, "", ""), lon |-> GeoPart(0, "", "")]

GeoStart ==
    /\ geo_latitude \in GeoLatitudes
    /\ geo_longitude \in GeoLongitudes
    /\ geo_text = NoGeo

\* The spatial variables when the behaviour is not about them.
GeoIdle ==
    /\ geo_latitude = 0
    /\ geo_longitude = 0
    /\ geo_text = NoGeo

\* utils.wikidata_geolocation_to_text(latitude, longitude)
FormatGeo ==
    /\ geo_text = NoGeo
    /\ geo_text' = wikidata_geolocation_to_text(PyFloat(geo_latitude), PyFloat(geo_longitude))
    /\ UNCHANGED <<geo_latitude, geo_longitude>>
    /\ UNCHANGED notGeo

GeoNext == FormatGeo

\* The part shows the magnitude of x: degrees, minutes and seconds add up
\* to |x| within the rounding of the seconds to one decimal (in 1/100000
\* of a second of arc: |x| * 36 against ten times the tenths shown).
ShowsMagnitude(part, x) ==
    /\ part.minutes \in 0..59
    /\ Abs(Abs(x) * 36 - 10 * (part.degrees * 36000 + part.minutes * 600 + part.tenths)) <= 5

\* C18: degrees, minutes and seconds are those of the absolute value of
\* each coordinate, and the hemisphere follows its sign: N for a latitude
\* >= 0 and S for one < 0, E for a longitude >= 0 and W for one < 0.
C18_HemisphereFromSign ==
    (geo_text # NoGeo) =>
        /\ geo_text.exc = "None"
        /\ ShowsMagnitude(geo_text.lat, geo_latitude)
        /\ ShowsMagnitude(geo_text.lon, geo_longitude)
        /\ geo_text.lat.hemi = (IF geo_latitude >= 0 THEN "N" ELSE "S")
        /\ geo_text.lon.hemi = (IF geo_longitude >= 0 THEN "E" ELSE "W")

(***************************************************************************)
(* The renderings of one entity (Textifier.WikidataTextifier)              *)
(*                                                                         *)
(* The entity is given with its labels already resolved: each property     *)
(* carries the string its lazy label resolves to.  Values are texts or     *)
(* None; no text contains a line break.                                    *)
(***************************************************************************)

\* Bound: the number of claims of the entity.
MaxClaims == 2

\* A qualifier or reference claim as _build_snak_claim makes it: its
\* values carry no rank, qualifiers or references.
SnakClaim(pid, label, value) ==
    [pid |-> pid, label |-> label,
     values |-> <<[value |-> value, rank |-> "None",
                   qualifiers |-> << >>, references |-> << >>]>>]

\* A truthy and two falsy snak claims: no value, and a property without label.
SnakTruthy == SnakClaim("P580", "start time", WikidataText("1979"))

SnakNoValue == SnakClaim("P582", "end time", NoneValue)

SnakNoLabel == SnakClaim("P9", "", WikidataText("x"))

\* WikidataClaimValue(value, qualifiers, references, rank)
FullClaimValue(value, rank, qualifiers, references) ==
    [value |-> value, rank |-> rank, qualifiers |-> qualifiers, references |-> references]

\* The claim values the behaviours draw from.
RenderValues ==
    { FullClaimValue(WikidataText("human"), rank, << >>, << >>) :
        rank \in {"None", "normal", "deprecated"} }
    \cup { FullClaimValue(WikidataText("human"), "normal", qs, << >>) :
             qs \in { <<SnakTruthy>>, <<SnakNoValue>>, <<SnakNoLabel, SnakTruthy>> } }
    \cup { FullClaimValue(WikidataText("human"), "normal", << >>, refs) :
             refs \in { <<<<SnakTruthy>>>>, <<<<SnakNoLabel>>>>, <<<< >>>>,
                        <<<<SnakNoValue>>, <<SnakTruthy>>>> } }
    \cup { FullClaimValue(NoneValue, "normal", << >>, << >>),
           FullClaimValue(WikidataText(""), "normal", <<SnakTruthy>>, << >>) }

\* The claims the behaviours draw from: one value each under a labelled
\* property, one claim under a property without label, one with two values.
RenderClaims ==
    { [pid |-> "P31", label |-> "instance of", values |-> <<v>>] : v \in RenderValues }
    \cup { [pid |-> "P9", label |-> "",
            values |-> <<FullClaimValue(WikidataText("human"), "normal", << >>, << >>)>>],
           [pid |-> "P106", label |-> "occupation",
            values |-> <<FullClaimValue(WikidataText("writer"), "deprecated", << >>, << >>),
                         FullClaimValue(NoneValue, "normal", << >>, << >>),
                         FullClaimValue(WikidataText("author"), "None", <<SnakTruthy>>, << >>)>>] }

\* The entities the behaviours draw from.
RenderEntities ==
    { [id |-> "Q42", label |-> label, description |-> description,
       aliases |-> aliases, claims |-> claims] :
        label \in {"Douglas Adams", ""},
        description \in {"", "English writer"},
        aliases \in {<< >>, <<"Douglas Noel Adams">>},
        claims \in SeqsUpTo(RenderClaims, MaxClaims) }

\* str(value) of a text value or None
NewValueStr(v) == IF v.type = "None" THEN "None" ELSE v.string_val

\* WikidataClaimValue.__bool__
NewClaimValue_bool(cv) == cv.value.type # "None" /\ NewValueStr(cv.value) # ""

\* WikidataClaim.__bool__
NewClaim_bool(c) ==
    /\ c.label # ""
    /\ Len(c.values) > 0
    /\ \E i \in DOMAIN c.values : NewClaimValue_bool(c.values[i])

\* [x for x in xs if x]
TruthyOnly(xs, bool(_)) == SelectSeq(xs, bool)

\* WikidataClaim.to_json of a qualifier or reference claim (its values
\* have nothing nested): a dict with the keys PID, property_label, values
SnakClaim_to_json(c) ==
    [PID |-> c.pid, property_label |-> c.label,
     values |-> [i \in DOMAIN TruthyOnly(c.values, NewClaimValue_bool) |->
                   [value |-> NewValueStr(TruthyOnly(c.values, NewClaimValue_bool)[i].value)]]]

\* [q.to_json() for q in claims if q]
SnakClaims_to_json(claims) ==
    [i \in DOMAIN TruthyOnly(claims, NewClaim_bool) |->
       SnakClaim_to_json(TruthyOnly(claims, NewClaim_bool)[i])]

\* WikidataClaimValue.to_json of a truthy value: a dict that always has
\* the key "value"; the other keys are added under the tests of the code.
NewClaimValue_to_json(cv) ==
    [value |-> NewValueStr(cv.value)]
    @@ (IF cv.qualifiers # << >>
        THEN [qualifiers |-> SnakClaims_to_json(cv.qualifiers)] ELSE << >>)
    @@ (IF cv.references # << >>
        THEN [references |-> [g \in DOMAIN cv.references |->
                                 SnakClaims_to_json(cv.references[g])]]
        ELSE << >>)
    @@ (IF cv.rank # "None" THEN [rank |-> cv.rank] ELSE << >>)

\* WikidataClaim.to_json
NewClaim_to_json(c) ==
    [PID |-> c.pid, property_label |-> c.label,
     values |-> [i \in DOMAIN TruthyOnly(c.values, NewClaimValue_bool) |->
                   NewClaimValue_to_json(TruthyOnly(c.values, NewClaimValue_bool)[i])]]

\* WikidataEntity.to_json
NewEntity_to_json(e) ==
    [QID |-> e.id,
     label |-> IF e.label # "" THEN e.label ELSE "None",
     description |-> e.description,
     aliases |-> e.aliases,
     claims |-> [i \in DOMAIN TruthyOnly(e.claims, NewClaim_bool) |->
                   NewClaim_to_json(TruthyOnly(e.claims, NewClaim_bool)[i])]]


\* WikidataClaim.to_triplet(as_qualifier=True): "label (pid): v1, v2"
SnakClaim_to_triplet(c) ==
    [pid |-> c.pid, label |-> c.label,
     values |-> [i \in DOMAIN TruthyOnly(c.values, NewClaimValue_bool) |->
                   NewValueStr(TruthyOnly(c.values, NewClaimValue_bool)[i].value)]]

\* WikidataClaimValue.to_triplet of a truthy value: the text, the
\* deprecation mark and the truthy qualifiers after " | "
NewClaimValue_to_triplet(cv) ==
    [text |-> NewValueStr(cv.value),
     deprecated |-> cv.rank = "deprecated",
     qualifiers |-> [i \in DOMAIN TruthyOnly(cv.qualifiers, NewClaim_bool) |->
                       SnakClaim_to_triplet(TruthyOnly(cv.qualifiers, NewClaim_bool)[i])]]

\* One line of the triplet text.  kind "value": "<property> (<pid>): <what>";
\* kind "description" / "aliases": "<kind>: <text>".
TripletLine(kind, pid, label, what) ==
    [kind |-> kind, pid |-> pid, label |-> label, what |-> what]

\* WikidataClaim.to_triplet(): one line per truthy value
NewClaim_to_triplet(c) ==
    [i \in DOMAIN TruthyOnly(c.values, NewClaimValue_bool) |->
       TripletLine("value", c.pid, c.label,
                   NewClaimValue_to_triplet(TruthyOnly(c.values, NewClaimValue_bool)[i]))]

\* lines.extend([c.to_triplet() for c in self.claims if c]), exploded
RECURSIVE ClaimLines(_)
ClaimLines(claims) ==
    IF claims = << >> THEN << >>
    ELSE NewClaim_to_triplet(Head(claims)) \o ClaimLines(Tail(claims))

NoText == [text |-> "", deprecated |-> FALSE, qualifiers |-> << >>]

\* The lines WikidataEntity.to_triplet collects before it adds the head.
EntityLines(e) ==
    (IF e.description # ""
     THEN <<TripletLine("description", "", "", [NoText EXCEPT !.text = e.description])>>
     ELSE << >>)
    \o (IF e.aliases # << >>
        THEN <<TripletLine("aliases", "", "", [NoText EXCEPT !.text = e.aliases[1]])>>
        ELSE << >>)
    \o ClaimLines(TruthyOnly(e.claims, NewClaim_bool))

\* WikidataEntity.to_triplet: the head "label (id)" alone when there are
\* no lines, else every line prefixed with "<head>: "
NewEntity_to_triplet(e) ==
    [head |-> [label |-> IF e.label # "" THEN e.label ELSE "<missing>", id |-> e.id],
     bare |-> EntityLines(e) = << >>,
     lines |-> EntityLines(e)]

NoRendering == [rendered |-> FALSE]

RenderStart ==
    /\ rn_entity \in RenderEntities
    /\ rn_json = NoRendering
    /\ rn_triplet = NoRendering

\* The rendering variables when the behaviour is not about them.
RenderIdle ==
    /\ rn_entity = [id |-> "", label |-> "", description |-> "", aliases |-> << >>,
                    claims |-> << >>]
    /\ rn_json = NoRendering
    /\ rn_triplet = NoRendering

\* entity.to_json()
ToJson ==
    /\ rn_json = NoRendering
    /\ rn_json' = NewEntity_to_json(rn_entity)
    /\ UNCHANGED <<rn_entity, rn_triplet>>
    /\ UNCHANGED notRender

\* entity.to_triplet()
ToTriplet ==
    /\ rn_triplet = NoRendering
    /\ rn_triplet' = NewEntity_to_triplet(rn_entity)
    /\ UNCHANGED <<rn_entity, rn_json>>
    /\ UNCHANGED notRender

RenderNext == ToJson \/ ToTriplet

\* The truthy claims of the entity and the truthy values of a claim, which
\* are the ones the renderings emit, in order.
EmittedClaims == TruthyOnly(rn_entity.claims, NewClaim_bool)

EmittedValues(c) == TruthyOnly(c.values, NewClaimValue_bool)

\* C19: in the structured rendering of a claim value the key 'qualifiers'
\* is present exactly when a qualifier is emitted, 'references' exactly
\* when a non-empty reference group is emitted and 'rank' exactly when a
\* rank is set; no key appears with an empty array.
C19_KeysOnlyWhenNonEmpty ==
    (rn_json # NoRendering) =>
        \A i \in DOMAIN rn_json.claims : \A j \in DOMAIN rn_json.claims[i].values :
            LET vj == rn_json.claims[i].values[j]
                cv == EmittedValues(EmittedClaims[i])[j]
            IN  /\ ("qualifiers" \in DOMAIN vj) <=>
                       (\E q \in DOMAIN cv.qualifiers : NewClaim_bool(cv.qualifiers[q]))
                /\ ("qualifiers" \in DOMAIN vj) => vj.qualifiers # << >>
                /\ ("references" \in DOMAIN vj) <=>
                       (\E g \in DOMAIN cv.references : \E r \in DOMAIN cv.references[g] :
                            NewClaim_bool(cv.references[g][r]))
                /\ ("references" \in DOMAIN vj) =>
                       (\E g \in DOMAIN vj.references : vj.references[g] # << >>)
                /\ ("rank" \in DOMAIN vj) <=> (cv.rank # "None")

\* The number of truthy values of the truthy claims.
RECURSIVE LeafCount(_)
LeafCount(claims) ==
    IF claims = << >> THEN 0
    ELSE Len(EmittedValues(Head(claims))) + LeafCount(Tail(claims))

\* C20: the triplet rendering of an entity without truthy claims is the
\* single line "label (id)" whatever its description and aliases; with
\* truthy claims it has one line per leaf value, each prefixed with the
\* head.
C20_TripletLines ==
    (rn_triplet # NoRendering) =>
        IF EmittedClaims = << >>
        THEN rn_triplet.bare /\ rn_triplet.lines = << >>
        ELSE /\ ~rn_triplet.bare
             /\ Len(rn_triplet.lines) = LeafCount(EmittedClaims)
             /\ \A i \in DOMAIN rn_triplet.lines : rn_triplet.lines[i].kind = "value"

(***************************************************************************)
(* Specifications                                                          *)
(***************************************************************************)

LangInit == LangStart /\ FactoryIdle /\ ConcIdle /\ NormIdle /\ RequestIdle /\ ValueIdle /\ TimeIdle /\ GeoIdle /\ RenderIdle

SpecLang == LangInit /\ [][LangNext]_vars

FactoryInit == FactoryStart /\ LangIdle /\ ConcIdle /\ NormIdle /\ RequestIdle /\ ValueIdle /\ TimeIdle /\ GeoIdle /\ RenderIdle

SpecFactory == FactoryInit /\ [][FactoryNext]_vars

ConcInit == ConcStart /\ LangIdle /\ FactoryIdle /\ NormIdle /\ RequestIdle /\ ValueIdle /\ TimeIdle /\ GeoIdle /\ RenderIdle

SpecConc == ConcInit /\ [][ConcNext]_vars

NormInit == NormStart /\ LangIdle /\ FactoryIdle /\ ConcIdle /\ RequestIdle /\ ValueIdle /\ TimeIdle /\ GeoIdle /\ RenderIdle

SpecNorm == NormInit /\ [][NormNext]_vars

FilterInit == FilterStart /\ LangIdle /\ FactoryIdle /\ ConcIdle /\ RequestIdle /\ ValueIdle /\ TimeIdle /\ GeoIdle /\ RenderIdle

SpecFilter == FilterInit /\ [][NormNext]_vars

RequestInit == RequestStart /\ LangIdle /\ FactoryIdle /\ ConcIdle /\ NormIdle /\ ValueIdle /\ TimeIdle /\ GeoIdle /\ RenderIdle

SpecRequest == RequestInit /\ [][RequestNext]_vars

ValueInit == ValueStart /\ LangIdle /\ FactoryIdle /\ ConcIdle /\ NormIdle /\ RequestIdle /\ TimeIdle /\ GeoIdle /\ RenderIdle

SpecValue == ValueInit /\ [][ValueNext]_vars

TimeInit == TimeStart /\ LangIdle /\ FactoryIdle /\ ConcIdle /\ NormIdle /\ RequestIdle /\ ValueIdle /\ GeoIdle /\ RenderIdle

SpecTime == TimeInit /\ [][TimeNext]_vars

GeoInit == GeoStart /\ LangIdle /\ FactoryIdle /\ ConcIdle /\ NormIdle /\ RequestIdle /\ ValueIdle /\ TimeIdle /\ RenderIdle

SpecGeo == GeoInit /\ [][GeoNext]_vars

RenderInit == RenderStart /\ LangIdle /\ FactoryIdle /\ ConcIdle /\ NormIdle /\ RequestIdle /\ ValueIdle /\ TimeIdle /\ GeoIdle

SpecRender == RenderInit /\ [][RenderNext]_vars

=============================================================================
